---- MODULE Spec2Model ----
(***************************************************************************)
(* Conversion pipeline of st4ck: the converter service's event handlers   *)
(* (converter/converter.py), its backup store (converter/backup_manager.py)*)
(* its tool wrapper (converter/m4b_converter.py) and the REST retry        *)
(* endpoint (api/main.py), over the shared sqlite store (db-init).         *)
(*                                                                         *)
(* Strings are sequences of one-character strings, so that prefix,         *)
(* substring and token operations are computed rather than assumed.        *)
(* Python's None / SQL NULL is the falsy value of the field's type: the    *)
(* empty string <<>> for names and paths, 0 for row ids.                   *)
(***************************************************************************)
EXTENDS Integers, Sequences, FiniteSets, TLC

\* ---------------------------------------------------------------- bounds
MaxMsgs == 2
MaxTime == 1
MaxInbox == 1
MaxAttemptsApi == 4
MaxStoreOps == 2
MaxFsChanges == 2
MaxUpserts == 3

\* ------------------------------------------------------- program constants
DefaultAttempts == 0
DefaultMaxAttempts == 3
CONVERSION_BACKUP_RETENTION == 3

\* ------------------------------------------------------------------ names
NoName == <<>>
NoId == 0

BookB == <<"b">>
BookC == <<"c">>
Books == {BookB, BookC}

\* the catalog (rss_items) holds one item, whose title is the first book
CatalogId == 1
CatalogTitle == BookB

Digits == <<"0", "1", "2", "3", "4", "5", "6", "7", "8", "9">>

\* datetime.now().strftime(...): the formatted timestamp, one symbol per tick
Timestamp(t) == <<Digits[t + 1]>>

\* f"{book_name}_{timestamp}"
BackupDirName(book, t) == book \o <<"_">> \o Timestamp(t)

\* str.startswith
StartsWith(s, prefix) ==
    /\ Len(prefix) <= Len(s)
    /\ \A i \in 1..Len(prefix) : s[i] = prefix[i]

\* str.lower() on the alphabet in use
Lower(c) ==
    IF c = "B" THEN "b" ELSE IF c = "C" THEN "c"
    ELSE IF c = "H" THEN "h" ELSE IF c = "L" THEN "l"
    ELSE IF c = "P" THEN "p" ELSE IF c = "R" THEN "r"
    ELSE IF c = "S" THEN "s" ELSE c

\* SQLite LIKE of one pattern character against one character:
\* '_' matches any character, letters match case-insensitively
LikeChar(p, c) == p = "_" \/ Lower(p) = Lower(c)

\* hay LIKE '%' || needle || '%'
LikeContains(hay, needle) ==
    \E off \in 0..(Len(hay) - Len(needle)) :
        \A j \in 1..Len(needle) : LikeChar(needle[j], hay[off + j])

\* ------------------------------------------------------------- directories
Absent == [kind |-> "absent", files |-> {}]
TreeMp3 == [kind |-> "dir", files |-> {<<"1.mp3", "x">>}]
TreeMp3b == [kind |-> "dir", files |-> {<<"1.mp3", "y">>, <<"2.mp3", "x">>}]
TreeTxt == [kind |-> "dir", files |-> {<<"n.txt", "x">>}]
TreeFile == [kind |-> "file", files |-> {<<"b.mp3", "x">>}]
AllTrees == {TreeMp3, TreeMp3b, TreeTxt, TreeFile}

\* what the mover delivers in the pipeline runs
SourceTrees == {TreeMp3}

Mp3Names == {"1.mp3", "2.mp3", "b.mp3"}

\* shutil.copytree(src, dst, dirs_exist_ok=True): files of top replace
\* same-named files of base, other files of base stay
Overlay(base, top) ==
    top \cup {p \in base : \A q \in top : q[1] # p[1]}

\* M4BConverter.find_mp3_files: rglob("*.mp3") under a directory
find_mp3_files(tree) ==
    IF tree.kind = "dir" THEN {p \in tree.files : p[1] \in Mp3Names} ELSE {}

\* ------------------------------------------------- identity resolution
RECURSIVE ReplaceDash(_)
\* str.replace(' - ', ' ')
ReplaceDash(s) ==
    IF s = <<>> THEN <<>>
    ELSE IF Len(s) >= 3 /\ s[1] = " " /\ s[2] = "-" /\ s[3] = " "
         THEN <<" ">> \o ReplaceDash(SubSeq(s, 4, Len(s)))
         ELSE <<s[1]>> \o ReplaceDash(Tail(s))

\* .replace('_', ' ').replace('.', ' ')
MapSeparator(c) == IF c \in {"_", "."} THEN " " ELSE c

\* name.replace(' - ', ' ').replace('_', ' ').replace('.', ' ').lower().strip()
NormalizeName(s) ==
    LET r == ReplaceDash(s)
    IN  [i \in 1..Len(r) |-> Lower(MapSeparator(r[i]))]

\* set(normalized.split()): the maximal runs of non-blank characters
WordSet(s) ==
    {SubSeq(s, i, j) : <<i, j>> \in
        {ij \in (1..Len(s)) \X (1..Len(s)) :
            /\ ij[1] <= ij[2]
            /\ \A k \in ij[1]..ij[2] : s[k] # " "
            /\ (ij[1] = 1 \/ s[ij[1] - 1] = " ")
            /\ (ij[2] = Len(s) \/ s[ij[2] + 1] = " ")}}

MaxOf(a, b) == IF a >= b THEN a ELSE b

\* score > 0.3 with score = len(common) / max(len(book_words), len(item_words)),
\* in tenths
ScoreAbove(common, denom) == 10 * common > 3 * denom

FuzzyCommon(book, title) ==
    Cardinality(WordSet(NormalizeName(book)) \cap WordSet(NormalizeName(title)))

FuzzyDenom(book, title) ==
    MaxOf(Cardinality(WordSet(NormalizeName(book))),
          Cardinality(WordSet(NormalizeName(title))))

\* rows that can end as best_match: non-empty word sets, score above the
\* threshold and no row scoring strictly higher (ties go to the row fetched
\* first, and the fetch order is the store's)
FuzzyMatches(book, items) ==
    {r \in items :
        /\ WordSet(NormalizeName(book)) # {}
        /\ WordSet(NormalizeName(r.title)) # {}
        /\ ScoreAbove(FuzzyCommon(book, r.title), FuzzyDenom(book, r.title))
        /\ \A q \in items :
              FuzzyCommon(book, q.title) * FuzzyDenom(book, r.title)
                  <= FuzzyCommon(book, r.title) * FuzzyDenom(book, q.title)}

\* ConverterService._find_rss_item_id_by_name: the ids the lookup can return
\* (fetchone() on an unordered query returns any matching row); {NoId} when
\* nothing matches
find_rss_item_id_by_name(book, items) ==
    LET exact == {r \in items : r.title = book}
        partial == {r \in items : LikeContains(r.title, book)}
        reverse == {r \in items : LikeContains(book, r.title)}
        fuzzy == FuzzyMatches(book, items)
        hit == IF exact # {} THEN exact
               ELSE IF partial # {} THEN partial
               ELSE IF reverse # {} THEN reverse
               ELSE fuzzy
    IN  IF hit = {} THEN {NoId} ELSE {r.id : r \in hit}

\* ------------------------------------------------------------------ state
VARIABLES
    now,               \* wall clock, in timestamp units
    srcFs,             \* /toMerge/<book>: the source tree of each book
    backups,           \* the backup store: snapshot directories by name
    converted,         \* books with /converted/<book>.m4b present
    rss_items,         \* catalog rows
    jobs,              \* conversion_jobs rows, in insertion order
    tracking,          \* conversion_tracking rows, in insertion order
    jobsHasRssItemId,  \* whether the deployed conversion_jobs table has the
                       \* rss_item_id column the converter writes
    inbox,             \* messages delivered to the converter's pubsub
    published,         \* result events published while handling the last event
    sent,              \* messages published and store calls made so far
    toolRuns,          \* tool invocations per book
    lastRun,           \* what the last handled event did, step by step
    apiResponse,       \* what the last retry request returned and published
    mergeFs,           \* the merge staging area: mp3 files per book folder
    untaggedFs,        \* the untagged staging area: output files per folder
    running,           \* the converter's event loop has not been left
    fsEvents,          \* notifications the observer has yet to deliver
    last_scan_time,    \* ConversionEventHandler.last_scan_time
    scannedFs,         \* the staging trees as the latest rescan read them
    selected           \* what the SELECT of each writer of the tracking table
                       \* returned, while its UPDATE or INSERT is to come

\* the two staging trees the progress watcher reads
staging == <<mergeFs, untaggedFs>>

\* the converter's loop flag, the watcher's trigger state and the writes
\* under way
loops == <<running, fsEvents, last_scan_time, scannedFs, selected>>

\* the same without the loop flag
triggers == <<fsEvents, last_scan_time, scannedFs, selected>>

vars == <<now, srcFs, backups, converted, rss_items, jobs, tracking,
          jobsHasRssItemId, staging, loops, inbox, published, sent, toolRuns,
          lastRun, apiResponse>>

ChanDownload == "audiobook:download_complete"
ChanRetry == "audiobook:retry_conversion"
ChanComplete == "audiobook:conversion_complete"
ChanFailed == "audiobook:conversion_failed"

ToolResults == {"exit0_wrote", "exit0_nowrite", "nonzero", "timeout"}

\* what can go wrong around one handled event: the snapshot or restore copy
\* raises, every try of the first or of the second job write meets "database
\* is locked", or the publish raises
Faults == {"none", "copy", "lock_first", "lock_second", "publish"}

NoRun ==
    [kind |-> "none", origin |-> "none", book |-> NoName, msgId |-> NoId,
     rid |-> NoId,
     srcExisted |-> FALSE, snapshot |-> NoName, found |-> NoName,
     tool |-> "none", nominal |-> TRUE, success |-> FALSE, raised |-> FALSE,
     steps |-> <<>>]

NoResponse ==
    [endpoint |-> "none", conversion_id |-> 0, code |-> 0, book |-> NoName,
     force |-> FALSE, hadJob |-> FALSE, attempts |-> 0, max_attempts |-> 0,
     publishedMsg |-> FALSE]

\* ------------------------------------------------------ the staging trees
\* estimated_eta_seconds NULL; 0 is an ETA
NoEta == -1

\* a merge book folder that does not exist, as its mp3 count
NoFolderCount == -1

\* ConversionEventHandler.last_scan_time before the first notification: the
\* epoch, further back than any cooldown
NeverScanned == -1

\* the suffix of a book's working folder in the untagged area
TmpSuffix == <<"-", "t", "m", "p", "f", "i", "l", "e", "s">>

\* str.endswith
EndsWith(s, suffix) ==
    /\ Len(suffix) <= Len(s)
    /\ \A i \in 1..Len(suffix) :
          s[Len(s) - Len(suffix) + i] = suffix[i]

\* the folders of the untagged area: the first book's working folder and the
\* second book's final folder
UntaggedFolders == {BookB \o TmpSuffix, BookC}

\* a folder of the untagged area by the output files in it: files ending in
\* -converting.m4b, files ending in -finished.m4b, other .m4b files
FolderOf(converting, finished, plain) ==
    [exists |-> TRUE, converting |-> converting, finished |-> finished,
     plain |-> plain]

NoFolder ==
    [exists |-> FALSE, converting |-> 0, finished |-> 0, plain |-> 0]

NoMerge == [b \in Books |-> NoFolderCount]
NoUntagged == [f \in UntaggedFolders |-> NoFolder]

\* the writers of conversion_tracking: the converter's tool wrapper, the
\* watcher's observer thread and the watcher's main thread
Writers == {"converter", "observer", "main"}

\* a writer that is not between its SELECT and its write
Idle == [book |-> NoName, existing |-> FALSE]
NoSelects == [w \in Writers |-> Idle]

\* the catalog as the feed worker left it: one item, no snapshot pointer yet
RssItemsInit ==
    {[id |-> CatalogId, title |-> CatalogTitle,
      conversion_backup_path |-> NoName, conversion_attempts |-> 0]}

Init ==
    /\ now = 0
    /\ srcFs = [b \in Books |-> Absent]
    /\ backups = {}
    /\ converted = {}
    /\ rss_items = RssItemsInit
    /\ jobs = <<>>
    /\ tracking = <<>>
    /\ jobsHasRssItemId \in BOOLEAN
    /\ inbox = <<>>
    /\ published = <<>>
    /\ sent = 0
    /\ toolRuns = [b \in Books |-> 0]
    /\ lastRun = NoRun
    /\ apiResponse = NoResponse
    /\ mergeFs = NoMerge
    /\ untaggedFs = NoUntagged
    /\ running = TRUE
    /\ fsEvents = <<>>
    /\ last_scan_time = NeverScanned
    /\ scannedFs = <<NoMerge, NoUntagged>>
    /\ selected = NoSelects

\* --------------------------------------------------------------- the store
BackupNames(store) == {d.name : d \in store}

BackupFiles(store, name) ==
    IF name \in BackupNames(store)
    THEN (CHOOSE d \in store : d.name = name).files
    ELSE {}

\* a create_backup that replaces the earlier snapshots of the book
create_backup_replacing(store, book, tree, t, copyOk) ==
    {d \in store : ~StartsWith(d.name, book \o <<"_">>)}
    \cup {[name |-> BackupDirName(book, t),
           files |-> IF copyOk THEN tree.files ELSE {}]}

\* create_backup that returns the snapshot path without writing the snapshot
create_backup_unwritten(store, book, tree, t, copyOk) == store

\* BackupManager.create_backup once the source exists: mkdir(exist_ok=True)
\* of <book>_<timestamp>, then copytree(dirs_exist_ok=True) or copy2 into it;
\* a copy that raises leaves the directory as mkdir left it
create_backup(store, book, tree, t, copyOk) ==
    LET name == BackupDirName(book, t)
        old == BackupFiles(store, name)
        new == IF copyOk THEN Overlay(old, tree.files) ELSE old
    IN  {d \in store : d.name # name} \cup {[name |-> name, files |-> new]}

\* BackupManager.restore_from_backup: the target after the call
restore_target(store, backup_path, target, copyOk) ==
    IF backup_path \notin BackupNames(store) THEN target
    ELSE IF target.kind = "file" THEN target
    ELSE IF copyOk
         THEN [kind |-> "dir", files |-> BackupFiles(store, backup_path)]
         ELSE [kind |-> "dir", files |-> {}]

\* a restore that reports success whatever happened
restore_from_backup_always(store, backup_path, target, copyOk) == TRUE

\* BackupManager.restore_from_backup: its return value
restore_from_backup(store, backup_path, target, copyOk) ==
    /\ backup_path \in BackupNames(store)
    /\ target.kind # "file"
    /\ copyOk

\* track_backup_usage that also starts the item's attempt count afresh
track_backup_usage_reset(items, backup_path, rid) ==
    {IF r.id = rid
     THEN [r EXCEPT !.conversion_backup_path = backup_path,
                    !.conversion_attempts = 0]
     ELSE r : r \in items}

\* BackupManager.track_backup_usage: UPDATE rss_items ... WHERE id = ?
track_backup_usage(items, backup_path, rid) ==
    {IF r.id = rid THEN [r EXCEPT !.conversion_backup_path = backup_path] ELSE r
        : r \in items}

\* BackupManager.increment_backup_usage: attempts + 1 on the rows of that title
increment_backup_usage(items, book) ==
    {IF r.title = book
     THEN [r EXCEPT !.conversion_attempts = r.conversion_attempts + 1]
     ELSE r : r \in items}

\* ConverterService._update_conversion_job_status: INSERT OR REPLACE of a row
\* that names neither id nor attempts; it is lost when every try meets
\* "database is locked" and when the table has no rss_item_id column
update_conversion_job_status(rows, book, status, rid, err, locked, t) ==
    IF locked \/ ~jobsHasRssItemId THEN rows
    ELSE Append(rows,
        [id |-> Len(rows) + 1, rss_item_id |-> rid, book_name |-> book,
         source_path |-> book, backup_path |-> NoName, status |-> status,
         attempts |-> DefaultAttempts, max_attempts |-> DefaultMaxAttempts,
         error_message |-> err, created_at |-> t])

\* M4BConverter.update_conversion_progress: update the rows of the book, or
\* insert one
update_conversion_progress(rows, book, status, cur, pct, total, conv, t) ==
    IF \E i \in 1..Len(rows) : rows[i].book_name = book
    THEN [i \in 1..Len(rows) |->
            IF rows[i].book_name = book
            THEN [rows[i] EXCEPT !.status = status, !.current_file = cur,
                                 !.progress_percentage = pct,
                                 !.total_files = total,
                                 !.converted_files = conv]
            ELSE rows[i]]
    ELSE Append(rows,
            [book_name |-> book, status |-> status, current_file |-> cur,
             progress_percentage |-> pct, total_files |-> total,
             converted_files |-> conv, estimated_eta_seconds |-> NoEta,
             created_at |-> t])

\* ---------------------------------------------------------- the tool wrapper
\* the error the wrapper has for a failed run of the tool: the text it logs and
\* stores as the tracking row's current_file
ToolError(toolRes) ==
    IF toolRes = "timeout" THEN "timed out"
    ELSE IF toolRes = "nonzero" THEN "Process failed with code"
    ELSE IF toolRes = "exit0_nowrite" THEN "Output file not created"
    ELSE ""

\* a wrapper that trusts the exit code alone
convert_audiobook_exit_only(book, tree, toolRes, conv, trk, t) ==
    LET total == Cardinality(find_mp3_files(tree))
    IN  IF tree.kind = "absent" \/ total = 0
        THEN [success |-> FALSE, ran |-> FALSE, converted |-> conv,
              tracking |-> trk]
        ELSE [success |-> toolRes \in {"exit0_wrote", "exit0_nowrite"},
              ran |-> TRUE,
              converted |-> IF toolRes = "exit0_wrote" THEN conv \cup {book}
                            ELSE conv,
              tracking |-> trk]

\* M4BConverter.convert_audiobook(input_path, "/converted", book_name), with
\* the outcome of the child process given; ran tells whether subprocess.run
\* was reached
convert_audiobook(book, tree, toolRes, conv, trk, t) ==
    LET total == Cardinality(find_mp3_files(tree))
        started == update_conversion_progress(trk, book, "converting",
                       "Starting conversion...", 0, total, 0, t)
        wrote == toolRes = "exit0_wrote"
        conv2 == IF wrote THEN conv \cup {book} ELSE conv
    IN  IF tree.kind = "absent" \/ total = 0
        THEN [success |-> FALSE, ran |-> FALSE, converted |-> conv,
              tracking |-> trk]
        ELSE IF toolRes = "timeout"
        THEN [success |-> FALSE, ran |-> TRUE, converted |-> conv,
              tracking |-> update_conversion_progress(started, book, "failed",
                               "timed out", 0, 0, 0, t)]
        ELSE IF toolRes = "nonzero"
        THEN [success |-> FALSE, ran |-> TRUE, converted |-> conv,
              tracking |-> update_conversion_progress(started, book, "failed",
                               "Process failed with code", 0, total, 0, t)]
        ELSE IF book \in conv2
        THEN [success |-> TRUE, ran |-> TRUE, converted |-> conv2,
              tracking |-> update_conversion_progress(started, book,
                               "completed", "", 100, total, total, t)]
        ELSE [success |-> FALSE, ran |-> TRUE, converted |-> conv2,
              tracking |-> update_conversion_progress(started, book, "failed",
                               "Output file not created", 0, total, 0, t)]

OptStep(cond, step) == IF cond THEN <<step>> ELSE <<>>

\* ConverterService._perform_conversion(book_name, source_path, rss_item_id)
perform_conversion(book, tree, rid, toolRes, lock1, lock2, t, items) ==
    LET j1 == IF rid # NoId
              THEN update_conversion_job_status(jobs, book, "processing", rid,
                       "", lock1, t)
              ELSE jobs
        c == convert_audiobook(book, tree, toolRes, converted, tracking, t)
        j2 == IF rid = NoId THEN j1
              ELSE IF c.success
              THEN update_conversion_job_status(j1, book, "completed", rid,
                       "", lock2, t)
              ELSE update_conversion_job_status(j1, book, "failed", rid,
                       "Conversion process failed", lock2, t)
    IN  [success |-> c.success, ran |-> c.ran, jobs |-> j2,
         tracking |-> c.tracking, converted |-> c.converted,
         rss_items |-> IF c.success
                       THEN increment_backup_usage(items, book)
                       ELSE items,
         steps |-> OptStep(rid # NoId, "job_processing")
                   \o <<"convert">>
                   \o OptStep(c.ran, "tool")
                   \o OptStep(rid # NoId,
                          IF c.success THEN "job_completed" ELSE "job_failed")
                   \o OptStep(c.success, "increment_usage")]

\* ConverterService._publish_conversion_complete / _publish_conversion_failed:
\* a publish that raises is logged and dropped
Publish(events, channel, book, rid, status, err, t, pubOk) ==
    IF pubOk
    THEN Append(events, [channel |-> channel, book_name |-> book,
                         rss_item_id |-> rid, status |-> status,
                         error_message |-> err, timestamp |-> t])
    ELSE events

\* ------------------------------------------------------------------ events
DownloadMsg(book, path, rid) ==
    [channel |-> ChanDownload, origin |-> "mover", book_name |-> book,
     path |-> path, rss_item_id |-> rid, ygg_torrent_id |-> NoId,
     conversion_id |-> NoId]

RetryMsg(origin, book, rid, ygg, cid) ==
    [channel |-> ChanRetry, origin |-> origin, book_name |-> book,
     path |-> NoName, rss_item_id |-> rid, ygg_torrent_id |-> ygg,
     conversion_id |-> cid]

CanSend == sent < MaxMsgs /\ Len(inbox) < MaxInbox

\* the mover (or the REST trigger) publishes download_complete for a book;
\* moved is the tree it has put at the source path by then (Absent: the move
\* is still under way)
PublishDownloadComplete(book, rid, moved) ==
    /\ CanSend
    /\ inbox' = Append(inbox, DownloadMsg(book, book, rid))
    /\ sent' = sent + 1
    /\ srcFs' = IF srcFs[book] = Absent
                THEN [srcFs EXCEPT ![book] = moved] ELSE srcFs
    /\ UNCHANGED <<now, backups, converted, rss_items, jobs, tracking,
                   jobsHasRssItemId, staging, loops, published, toolRuns, lastRun,
                   apiResponse>>

\* a download_complete payload without its book name and path
PublishInvalidDownload ==
    /\ CanSend
    /\ inbox' = Append(inbox, DownloadMsg(NoName, NoName, NoId))
    /\ sent' = sent + 1
    /\ UNCHANGED <<now, srcFs, backups, converted, rss_items, jobs, tracking,
                   jobsHasRssItemId, staging, loops, published, toolRuns, lastRun,
                   apiResponse>>

\* a client publishes retry_conversion with the fields the handler reads
PublishRetryConversion(book, rid) ==
    /\ CanSend
    /\ inbox' = Append(inbox, RetryMsg("client", book, rid, NoId, NoId))
    /\ sent' = sent + 1
    /\ UNCHANGED <<now, srcFs, backups, converted, rss_items, jobs, tracking,
                   jobsHasRssItemId, staging, loops, published, toolRuns, lastRun,
                   apiResponse>>

\* a handler that lets every error it meets out
handler_raises_uncaught(fault) == fault # "none"

\* whether an error met while handling an event leaves the handler: the body
\* of handle_download_complete and of handle_retry_conversion is one try
\* block whose except Exception logs the error and returns
handler_raises(fault) == FALSE

\* whether the event loop is left when a handler raises: the loop's own
\* except Exception logs, sleeps 5 seconds and goes on with the next message
main_loop_breaks(raised) == FALSE

\* ConverterService.handle_download_complete on the next message of the
\* download_complete channel.  arrived is what the mover put at the source
\* path during the 5 second wait, toolRes the outcome of the tool, fault what
\* went wrong around this event.
handle_download_complete(rid, arrived, toolRes, fault) ==
    /\ running
    /\ inbox # <<>>
    /\ Head(inbox).channel = ChanDownload
    /\ LET msg == Head(inbox)
           book == msg.book_name
           run0 == [NoRun EXCEPT !.kind = "download", !.origin = msg.origin,
                                 !.book = book, !.msgId = msg.rss_item_id,
                                 !.raised = handler_raises(fault)]
       IN
       /\ inbox' = Tail(inbox)
       /\ IF book = NoName \/ msg.path = NoName
          THEN /\ rid = NoId /\ arrived = Absent /\ fault = "none"
               /\ toolRes = "nonzero"
               /\ lastRun' = [run0 EXCEPT !.steps = <<"invalid">>]
               /\ published' = <<>>
               /\ UNCHANGED <<srcFs, backups, converted, rss_items, jobs,
                              tracking, toolRuns>>
          ELSE
          LET copyOk == fault # "copy"
              lock1 == fault = "lock_first"
              lock2 == fault = "lock_second"
              pubOk == fault # "publish"
              src0 == srcFs[book]
              src1 == IF src0 = Absent THEN arrived ELSE src0
              first == OptStep(msg.rss_item_id = NoId, "resolve_id")
                       \o OptStep(src0 = Absent, "wait")
              name == BackupDirName(book, now)
              tracked == IF rid # NoId
                         THEN track_backup_usage(rss_items, name, rid)
                         ELSE rss_items
              p == perform_conversion(book, src1, rid, toolRes, lock1, lock2,
                                      now, tracked)
              run1 == [run0 EXCEPT !.rid = rid, !.srcExisted = src0 # Absent,
                         !.nominal = fault = "none"]
          IN
          /\ rid \in (IF msg.rss_item_id # NoId THEN {msg.rss_item_id}
                      ELSE find_rss_item_id_by_name(book, rss_items))
          /\ (src0 # Absent => arrived = Absent)
          /\ srcFs' = [srcFs EXCEPT ![book] = src1]
          /\ IF src1 = Absent
             THEN /\ fault = "none" /\ toolRes = "nonzero"
                  /\ lastRun' = [run1 EXCEPT
                                   !.steps = first \o <<"source_missing">>]
                  /\ published' = <<>>
                  /\ UNCHANGED <<backups, converted, rss_items, jobs, tracking,
                                 toolRuns>>
             ELSE
             /\ backups' = create_backup(backups, book, src1, now, copyOk)
             /\ IF ~copyOk
                THEN /\ toolRes = "nonzero"
                     /\ lastRun' = [run1 EXCEPT
                                      !.steps = first \o <<"backup_failed">>]
                     /\ published' = <<>>
                     /\ UNCHANGED <<converted, rss_items, jobs, tracking,
                                    toolRuns>>
                ELSE
                /\ (rid = NoId => fault = "none")
                /\ jobs' = p.jobs
                /\ tracking' = p.tracking
                /\ converted' = p.converted
                /\ rss_items' = p.rss_items
                /\ toolRuns' = IF p.ran
                               THEN [toolRuns EXCEPT ![book] = @ + 1]
                               ELSE toolRuns
                /\ published' =
                      IF rid = NoId THEN <<>>
                      ELSE IF p.success
                      THEN Publish(<<>>, ChanComplete, book, rid,
                                   "completed", "", now, pubOk)
                      ELSE Publish(<<>>, ChanFailed, book, rid,
                                   "failed", "Conversion failed", now, pubOk)
                /\ lastRun' = [run1 EXCEPT
                      !.snapshot = name,
                      !.tool = IF p.ran THEN toolRes ELSE "none",
                      !.success = p.success,
                      !.steps = first \o <<"backup">>
                                \o OptStep(rid # NoId, "track_backup")
                                \o p.steps
                                \o OptStep(rid # NoId,
                                       IF p.success THEN "publish_complete"
                                       ELSE "publish_failed")]
    /\ running' = ~main_loop_breaks(handler_raises(fault))
    /\ UNCHANGED <<now, jobsHasRssItemId, staging, triggers, sent,
                   apiResponse>>

\* ConverterService._get_backup_path: the persisted pointer of the catalog row
\* titled book_name, else the backup_path of the book's latest job row; the
\* values the two fetchone() calls can return
get_backup_path(book, items, rows) ==
    LET titled == {r \in items : r.title = book}
        mine == {i \in 1..Len(rows) : rows[i].book_name = book}
        latest == {i \in mine :
                      \A k \in mine : rows[k].created_at <= rows[i].created_at}
        fromJobs == IF latest = {} THEN {NoName}
                    ELSE {rows[i].backup_path : i \in latest}
    IN  {r.conversion_backup_path :
            r \in {q \in titled : q.conversion_backup_path # NoName}}
        \cup (IF titled = {}
                 \/ \E q \in titled : q.conversion_backup_path = NoName
              THEN fromJobs ELSE {})

\* a scan that takes any directory of the backup store
find_backup_in_filesystem_any(book, store) ==
    IF store = {} THEN {NoName} ELSE BackupNames(store)

\* ConverterService._find_backup_in_filesystem: the first directory of the
\* backup store, in iterdir() order, whose name starts with book_name
find_backup_in_filesystem(book, store) ==
    LET hits == {n \in BackupNames(store) : StartsWith(n, book)}
    IN  IF hits = {} THEN {NoName} ELSE hits

\* ConverterService.handle_retry_conversion on the next message of the
\* retry_conversion channel.  pointer and scanned are the results of the two
\* lookups, toolRes the outcome of the tool, fault what went wrong around this
\* event.
handle_retry_conversion(pointer, scanned, toolRes, fault) ==
    /\ running
    /\ inbox # <<>>
    /\ Head(inbox).channel = ChanRetry
    /\ LET msg == Head(inbox)
           book == msg.book_name
           rid == msg.rss_item_id
           run0 == [NoRun EXCEPT !.kind = "retry", !.origin = msg.origin,
                                 !.book = book, !.msgId = rid, !.rid = rid,
                                 !.raised = handler_raises(fault)]
       IN
       /\ inbox' = Tail(inbox)
       /\ IF book = NoName \/ rid = NoId
          THEN /\ pointer = NoName /\ scanned = NoName /\ fault = "none"
               /\ toolRes = "nonzero"
               /\ lastRun' = [run0 EXCEPT !.steps = <<"invalid">>]
               /\ published' = <<>>
               /\ UNCHANGED <<srcFs, backups, converted, rss_items, jobs,
                              tracking, toolRuns>>
          ELSE
          LET restoreOk == fault # "copy"
              lock1 == fault = "lock_first"
              lock2 == fault = "lock_second"
              pubOk == fault # "publish"
              backup_path == IF pointer # NoName THEN pointer ELSE scanned
              lookup == <<"lookup_pointer">> \o OptStep(pointer = NoName, "scan")
              ok == restore_from_backup(backups, backup_path, srcFs[book],
                                        restoreOk)
              src1 == restore_target(backups, backup_path, srcFs[book],
                                     restoreOk)
              p == perform_conversion(book, src1, rid, toolRes, lock1, lock2,
                                      now, rss_items)
              run1 == [run0 EXCEPT !.srcExisted = srcFs[book] # Absent,
                         !.found = backup_path,
                         !.nominal = fault = "none"]
          IN
          /\ pointer \in get_backup_path(book, rss_items, jobs)
          /\ scanned \in (IF pointer # NoName THEN {NoName}
                          ELSE find_backup_in_filesystem(book, backups))
          /\ IF backup_path = NoName
             THEN /\ fault = "none" /\ toolRes = "nonzero"
                  /\ lastRun' = [run1 EXCEPT !.steps = lookup \o <<"no_backup">>]
                  /\ published' = <<>>
                  /\ UNCHANGED <<srcFs, backups, converted, rss_items, jobs,
                                 tracking, toolRuns>>
             ELSE
             /\ srcFs' = [srcFs EXCEPT ![book] = src1]
             /\ IF ~ok
                THEN /\ toolRes = "nonzero" /\ fault \in {"none", "copy"}
                     /\ lastRun' = [run1 EXCEPT
                                      !.steps = lookup \o <<"restore_failed">>]
                     /\ published' = <<>>
                     /\ UNCHANGED <<backups, converted, rss_items, jobs,
                                    tracking, toolRuns>>
                ELSE
                /\ jobs' = p.jobs
                /\ tracking' = p.tracking
                /\ converted' = p.converted
                /\ rss_items' = p.rss_items
                /\ toolRuns' = IF p.ran
                               THEN [toolRuns EXCEPT ![book] = @ + 1]
                               ELSE toolRuns
                /\ published' =
                      IF p.success
                      THEN Publish(<<>>, ChanComplete, book, rid,
                                   "completed", "", now, pubOk)
                      ELSE Publish(<<>>, ChanFailed, book, rid, "failed",
                                   "Retry conversion failed", now, pubOk)
                /\ lastRun' = [run1 EXCEPT
                      !.tool = IF p.ran THEN toolRes ELSE "none",
                      !.success = p.success,
                      !.steps = lookup \o <<"restore">> \o p.steps
                                \o <<IF p.success THEN "publish_complete"
                                     ELSE "publish_failed">>]
                /\ UNCHANGED backups
    /\ running' = ~main_loop_breaks(handler_raises(fault))
    /\ UNCHANGED <<now, jobsHasRssItemId, staging, triggers, sent,
                   apiResponse>>

\* ------------------------------------------------------------ REST endpoint
\* the rows ORDER BY created_at DESC LIMIT 1 can return for a book
LatestJobs(rows, book) ==
    LET mine == {i \in 1..Len(rows) : rows[i].book_name = book}
    IN  {i \in mine : \A k \in mine : rows[k].created_at <= rows[i].created_at}

\* the budget test with the comparison off by one
RetryRejectedStrict(attempts, max_attempts, force) ==
    attempts > max_attempts /\ ~force

\* the budget test of retry_conversion: attempts >= max_attempts and not force
RetryRejected(attempts, max_attempts, force) ==
    attempts >= max_attempts /\ ~force

\* POST /conversions/{conversion_id}/retry with body {force}; j is the job row
\* the query returned (0 when the book has no job row)
retry_conversion(conversion_id, force, j) ==
    /\ CanSend
    /\ IF conversion_id \notin 1..Len(tracking)
       THEN /\ j = 0 /\ ~force
            /\ apiResponse' = [NoResponse EXCEPT !.endpoint = "retry",
                                                 !.code = 404]
            /\ UNCHANGED <<inbox, sent>>
       ELSE
       LET book == tracking[conversion_id].book_name
           latest == LatestJobs(jobs, book)
           resp == [NoResponse EXCEPT !.endpoint = "retry", !.book = book,
                       !.force = force,
                       !.hadJob = j # 0,
                       !.attempts = IF j # 0 THEN jobs[j].attempts ELSE 0,
                       !.max_attempts = IF j # 0 THEN jobs[j].max_attempts
                                        ELSE 0]
       IN
       /\ j \in (IF latest = {} THEN {0} ELSE latest)
       /\ IF j # 0 /\ RetryRejected(jobs[j].attempts, jobs[j].max_attempts,
                                    force)
          THEN /\ apiResponse' = [resp EXCEPT !.code = 400]
               /\ UNCHANGED <<inbox, sent>>
          ELSE
          /\ apiResponse' = [resp EXCEPT !.code = 200, !.publishedMsg = TRUE]
          /\ inbox' = Append(inbox,
                RetryMsg("api", book, NoId,
                         IF j # 0 THEN jobs[j].rss_item_id ELSE NoId,
                         conversion_id))
          /\ sent' = sent + 1
    /\ UNCHANGED <<now, srcFs, backups, converted, rss_items, jobs, tracking,
                   jobsHasRssItemId, staging, loops, published, toolRuns, lastRun>>

\* an UPDATE that leaves the status test out
cancel_rows_any_status(rows, conversion_id) ==
    [i \in 1..Len(rows) |->
        IF rows[i].id = conversion_id
        THEN [rows[i] EXCEPT !.status = "cancelled"]
        ELSE rows[i]]

\* UPDATE conversion_jobs SET status = 'cancelled' WHERE id = ? AND status =
\* 'processing'
cancel_rows(rows, conversion_id) ==
    [i \in 1..Len(rows) |->
        IF rows[i].id = conversion_id /\ rows[i].status = "processing"
        THEN [rows[i] EXCEPT !.status = "cancelled"]
        ELSE rows[i]]

\* POST /conversions/{conversion_id}/cancel: 404 when the UPDATE matched no
\* row, 200 otherwise
cancel_conversion(conversion_id) ==
    /\ jobs' = cancel_rows(jobs, conversion_id)
    /\ apiResponse' = [NoResponse EXCEPT
                          !.endpoint = "cancel",
                          !.conversion_id = conversion_id,
                          !.code = IF jobs' = jobs THEN 404 ELSE 200]
    /\ UNCHANGED <<now, srcFs, backups, converted, rss_items, tracking,
                   jobsHasRssItemId, staging, loops, inbox, published, sent,
                   toolRuns, lastRun>>

\* ------------------------------------------------------------- environment
\* a timestamp unit passes before the next event is handled; time is counted
\* from the first handled event
Tick ==
    /\ now < MaxTime
    /\ inbox # <<>>
    /\ lastRun.kind # "none"
    /\ now' = now + 1
    /\ UNCHANGED <<srcFs, backups, converted, rss_items, jobs, tracking,
                   jobsHasRssItemId, staging, loops, inbox, published, sent, toolRuns,
                   lastRun, apiResponse>>

MsgIds == {NoId, CatalogId}

\* the values the handlers' lookups can return for the message at the head of
\* the inbox
ResolvedIds ==
    IF inbox = <<>> \/ Head(inbox).book_name = NoName THEN {NoId}
    ELSE IF Head(inbox).rss_item_id # NoId THEN {Head(inbox).rss_item_id}
    ELSE find_rss_item_id_by_name(Head(inbox).book_name, rss_items)

Pointers ==
    IF inbox = <<>> \/ Head(inbox).book_name = NoName
       \/ Head(inbox).rss_item_id = NoId
    THEN {NoName}
    ELSE get_backup_path(Head(inbox).book_name, rss_items, jobs)

Scans(pointer) ==
    IF inbox = <<>> \/ Head(inbox).book_name = NoName
       \/ Head(inbox).rss_item_id = NoId \/ pointer # NoName
    THEN {NoName}
    ELSE find_backup_in_filesystem(Head(inbox).book_name, backups)

Next ==
    \/ \E book \in Books, rid \in MsgIds, moved \in SourceTrees \cup {Absent} :
          PublishDownloadComplete(book, rid, moved)
    \/ PublishInvalidDownload
    \/ \E book \in Books, rid \in MsgIds : PublishRetryConversion(book, rid)
    \/ \E rid \in ResolvedIds, arrived \in SourceTrees \cup {Absent},
          toolRes \in ToolResults, fault \in Faults :
          handle_download_complete(rid, arrived, toolRes, fault)
    \/ \E pointer \in Pointers :
          \E scanned \in Scans(pointer), toolRes \in ToolResults,
             fault \in Faults :
             handle_retry_conversion(pointer, scanned, toolRes, fault)
    \/ \E cid \in 1..(Len(tracking) + 1), force \in BOOLEAN,
          j \in 0..Len(jobs) :
          retry_conversion(cid, force, j)
    \/ Tick

Spec == Init /\ [][Next]_vars

\* ------------------------------------------- the retry endpoint on its own
\* a job row as the retry endpoint reads it, with the given budget fields
JobRowApi(id, book, attempts, max_attempts, t) ==
    [id |-> id, rss_item_id |-> CatalogId, book_name |-> book,
     source_path |-> book, backup_path |-> NoName, status |-> "failed",
     attempts |-> attempts, max_attempts |-> max_attempts,
     error_message |-> "Conversion process failed", created_at |-> t]

TrackingRowApi(book) ==
    [book_name |-> book, status |-> "failed", current_file |-> "",
     progress_percentage |-> 0, total_files |-> 1, converted_files |-> 0,
     estimated_eta_seconds |-> NoEta, created_at |-> 0]

\* a job row the converter left in the given status
JobRowStatusApi(id, book, status) ==
    [JobRowApi(id, book, DefaultAttempts, DefaultMaxAttempts, 0) EXCEPT
        !.status = status,
        !.error_message = IF status = "failed"
                          THEN "Conversion process failed" ELSE ""]

\* the job tables the endpoint is run against: no row, one row of the first
\* book, an older and a newer row of it, or a row of each book in some status
JobTablesApi ==
    {<<>>}
    \cup {<<JobRowApi(1, BookB, a, m, 0)>> :
            a \in 0..MaxAttemptsApi, m \in 1..MaxAttemptsApi}
    \cup {<<JobRowApi(1, BookB, a1, DefaultMaxAttempts, 0),
            JobRowApi(2, BookB, a2, DefaultMaxAttempts, 1)>> :
            a1 \in 0..MaxAttemptsApi, a2 \in 0..MaxAttemptsApi}
    \cup {<<JobRowStatusApi(1, BookB, s1), JobRowStatusApi(2, BookC, s2)>> :
            s1 \in {"processing", "completed"},
            s2 \in {"processing", "failed", "cancelled"}}

InitApi ==
    /\ now = 0
    /\ srcFs = [b \in Books |-> Absent]
    /\ backups = {}
    /\ converted = {}
    /\ rss_items = RssItemsInit
    /\ jobs \in JobTablesApi
    /\ tracking = <<TrackingRowApi(BookB), TrackingRowApi(BookC)>>
    /\ jobsHasRssItemId \in BOOLEAN
    /\ inbox = <<>>
    /\ published = <<>>
    /\ sent = 0
    /\ toolRuns = [b \in Books |-> 0]
    /\ lastRun = NoRun
    /\ apiResponse = NoResponse
    /\ mergeFs = NoMerge
    /\ untaggedFs = NoUntagged
    /\ running = TRUE
    /\ fsEvents = <<>>
    /\ last_scan_time = NeverScanned
    /\ scannedFs = <<NoMerge, NoUntagged>>
    /\ selected = NoSelects

NextApi ==
    \/ \E cid \in 1..(Len(tracking) + 1), force \in BOOLEAN,
          j \in 0..Len(jobs) :
          retry_conversion(cid, force, j)
    \/ \E cid \in 1..(Len(jobs) + 1) : cancel_conversion(cid)
    \/ \E pointer \in Pointers :
          \E scanned \in Scans(pointer), toolRes \in ToolResults,
             fault \in Faults :
             handle_retry_conversion(pointer, scanned, toolRes, fault)

SpecApi == InitApi /\ [][NextApi]_vars

\* ---------------------------------------------- the backup store on its own
\* a second book whose name begins with the first book's
BookBC == <<"b", "c">>
StoreBooks == {BookB, BookBC}

\* the source trees the store is exercised with
StoreTrees == {Absent, TreeMp3, TreeMp3b, TreeFile}

\* the catalog after a attempts of its item were counted
RssItemsCounted(a) ==
    {[id |-> CatalogId, title |-> CatalogTitle,
      conversion_backup_path |-> NoName, conversion_attempts |-> a]}

\* an exists() test that always passes
source_exists_always(tree) == TRUE

\* Path(source_path).exists()
source_exists(tree) == tree # Absent

InitStore ==
    /\ now = 0
    /\ srcFs \in [StoreBooks -> StoreTrees]
    /\ backups = {}
    /\ converted = {}
    /\ rss_items \in {RssItemsCounted(a) :
                        a \in 0..(CONVERSION_BACKUP_RETENTION - 1)}
    /\ jobs = <<>>
    /\ tracking = <<>>
    /\ jobsHasRssItemId = FALSE
    /\ \E book \in StoreBooks :
          inbox = <<RetryMsg("client", book, CatalogId, NoId, NoId)>>
    /\ published = <<>>
    /\ sent = 0
    /\ toolRuns = [b \in StoreBooks |-> 0]
    /\ lastRun = NoRun
    /\ apiResponse = NoResponse
    /\ mergeFs = NoMerge
    /\ untaggedFs = NoUntagged
    /\ running = TRUE
    /\ fsEvents = <<>>
    /\ last_scan_time = NeverScanned
    /\ scannedFs = <<NoMerge, NoUntagged>>
    /\ selected = NoSelects

\* BackupManager.create_backup(book, /toMerge/<book>) as a whole; copyOk is
\* false when the copy raises
StoreCreate(book, copyOk) ==
    /\ sent < MaxStoreOps
    /\ sent' = sent + 1
    /\ LET tree == srcFs[book]
           run0 == [NoRun EXCEPT !.kind = "create", !.book = book,
                                 !.srcExisted = tree # Absent]
       IN  IF ~source_exists(tree)
           THEN /\ copyOk
                /\ backups' = backups
                /\ lastRun' = run0
           ELSE /\ backups' = create_backup(backups, book, tree, now, copyOk)
                /\ lastRun' = [run0 EXCEPT
                      !.snapshot = IF copyOk THEN BackupDirName(book, now)
                                   ELSE NoName,
                      !.nominal = copyOk, !.success = copyOk]
    /\ UNCHANGED <<now, srcFs, converted, rss_items, jobs, tracking,
                   jobsHasRssItemId, staging, loops, inbox, published, toolRuns, apiResponse>>

\* BackupManager.restore_from_backup(/backups/<name>, /toMerge/<book>) as a
\* whole
StoreRestore(name, book, copyOk) ==
    /\ sent < MaxStoreOps
    /\ sent' = sent + 1
    /\ srcFs' = [srcFs EXCEPT
                   ![book] = restore_target(backups, name, srcFs[book], copyOk)]
    /\ lastRun' = [NoRun EXCEPT !.kind = "restore", !.book = book,
                      !.srcExisted = srcFs[book] # Absent, !.found = name,
                      !.nominal = copyOk,
                      !.success = restore_from_backup(backups, name,
                                                      srcFs[book], copyOk)]
    /\ UNCHANGED <<now, backups, converted, rss_items, jobs, tracking,
                   jobsHasRssItemId, staging, loops, inbox, published, toolRuns, apiResponse>>

\* the wall clock passes to the next timestamp
StoreTick ==
    /\ now < MaxTime
    /\ backups # {}
    /\ now' = now + 1
    /\ UNCHANGED <<srcFs, backups, converted, rss_items, jobs, tracking,
                   jobsHasRssItemId, staging, loops, inbox, published, sent, toolRuns,
                   lastRun, apiResponse>>

NextStore ==
    \/ \E book \in StoreBooks, copyOk \in BOOLEAN : StoreCreate(book, copyOk)
    \/ \E name \in BackupNames(backups), book \in StoreBooks,
          copyOk \in BOOLEAN :
          StoreRestore(name, book, copyOk)
    \/ StoreTick
    \/ \E pointer \in Pointers :
          \E scanned \in Scans(pointer), toolRes \in ToolResults,
             fault \in Faults :
             handle_retry_conversion(pointer, scanned, toolRes, fault)

SpecStore == InitStore /\ [][NextStore]_vars

\* ---------------------------------------------------- the progress watcher
\* seconds of wall clock per timestamp unit, and the sanity bound of the ETA
SecondsPerTick == 400000
SevenDays == 86400 * 7

\* the local clock against the store's CURRENT_TIMESTAMP, in timestamp units
ClockSkews == {0, -1}

\* the name of a file bearing the in-progress suffix
ConvertingName == "1-converting.m4b"

\* the contents the staging folders are exercised with
MergeCounts == {NoFolderCount, 0, 1, 2, 4}
FolderStates ==
    {NoFolder, FolderOf(0, 0, 0), FolderOf(1, 0, 0), FolderOf(1, 0, 1),
     FolderOf(1, 1, 0), FolderOf(0, 1, 1), FolderOf(0, 0, 1),
     FolderOf(0, 0, 2)}

\* ConversionTracker.extract_book_name_from_folder: folder_name[:-9]
extract_book_name_from_folder(folder) ==
    IF EndsWith(folder, TmpSuffix)
    THEN SubSeq(folder, 1, Len(folder) - 9)
    ELSE folder

RECURSIVE SumCounts(_, _)
SumCounts(merge, S) ==
    IF S = {} THEN 0
    ELSE LET b == CHOOSE x \in S : TRUE
         IN  (IF merge[b] > 0 THEN merge[b] ELSE 0)
             + SumCounts(merge, S \ {b})

\* ConversionTracker.get_merge_files_count: the mp3 files of every book folder
get_merge_files_count(merge) == SumCounts(merge, DOMAIN merge)

get_merge_book_folders(merge) ==
    {b \in DOMAIN merge : merge[b] # NoFolderCount}

get_untagged_folders(unt) == {f \in DOMAIN unt : unt[f].exists}

\* ConversionTracker.find_converting_file: "" for None
find_converting_file(folder) ==
    IF folder.converting > 0 THEN ConvertingName ELSE ""

has_finished_files(folder) == folder.finished > 0

\* a count of every .m4b file, the one in progress included
get_converted_files_count_all(folder) ==
    folder.converting + folder.finished + folder.plain

\* ConversionTracker.get_converted_files_count: .m4b files that do not end in
\* -converting.m4b
get_converted_files_count(folder) == folder.finished + folder.plain

\* ConversionTracker.calculate_eta, the local clock reading t + skew
calculate_eta(progress_percentage, created_at, t, skew) ==
    IF progress_percentage <= 0 \/ progress_percentage >= 100 THEN NoEta
    ELSE LET elapsed == (t - created_at + skew) * SecondsPerTick
             remaining == ((elapsed * 100) \div progress_percentage) - elapsed
         IN  IF remaining < 0 \/ remaining > SevenDays THEN NoEta
             ELSE remaining

\* the folders of the untagged area the loop of update_conversion_tracking
\* can stop at for a book
BookFolderCandidates(book, unt) ==
    {f \in get_untagged_folders(unt) :
        extract_book_name_from_folder(f) = book \/ f = book}

\* one such folder per book, NoName where there is none
FolderPicks(unt) ==
    {p \in [Books -> UntaggedFolders \cup {NoName}] :
        \A b \in Books :
            IF BookFolderCandidates(b, unt) = {} THEN p[b] = NoName
            ELSE p[b] \in BookFolderCandidates(b, unt)}

\* the row fetchone() returns for a book, as a set of indexes
FirstRow(rows, book) ==
    {i \in 1..Len(rows) :
        /\ rows[i].book_name = book
        /\ \A k \in 1..Len(rows) : rows[k].book_name = book => i <= k}

\* a classification that looks at the count of output files first
classify_folder_count_first(folder, counted, total_files) ==
    IF counted > 0
    THEN IF counted >= total_files
         THEN [status |-> "completed", current_file |-> ""]
         ELSE [status |-> "converting",
               current_file |-> "Finalizing conversion..."]
    ELSE IF find_converting_file(folder) # ""
    THEN [status |-> "converting",
          current_file |-> find_converting_file(folder)]
    ELSE IF has_finished_files(folder)
    THEN [status |-> "converting",
          current_file |-> "Processing finished files..."]
    ELSE [status |-> "pending", current_file |-> ""]

\* the status and current_file update_conversion_tracking gives a book whose
\* folder it found in the untagged area; "" for None
classify_folder(folder, counted, total_files) ==
    IF find_converting_file(folder) # ""
    THEN [status |-> "converting",
          current_file |-> find_converting_file(folder)]
    ELSE IF has_finished_files(folder)
    THEN [status |-> "converting",
          current_file |-> "Processing finished files..."]
    ELSE IF counted > 0
    THEN IF counted >= total_files
         THEN [status |-> "completed", current_file |-> ""]
         ELSE [status |-> "converting",
               current_file |-> "Finalizing conversion..."]
    ELSE [status |-> "pending", current_file |-> ""]

\* a choice of total_files that looks at the untagged folder before the row
determine_total_files_folder_first(merge_files_count, known, book_folder, folder) ==
    IF merge_files_count # 0 THEN merge_files_count
    ELSE IF book_folder # NoName
              /\ folder.converting + folder.finished + folder.plain > 0
    THEN folder.converting + folder.finished + folder.plain
    ELSE known

\* the total_files update_conversion_tracking settles on: the count of the
\* merge area, else the total_files of the existing row (known, 0 without a
\* row), else every .m4b file under the book's untagged folder
determine_total_files(merge_files_count, known, book_folder, folder) ==
    LET total1 == IF merge_files_count = 0 /\ known > 0 THEN known
                  ELSE merge_files_count
    IN  IF total1 = 0 /\ book_folder # NoName
        THEN folder.converting + folder.finished + folder.plain
        ELSE total1

\* ConversionTracker.update_conversion_tracking(book_name, merge_folder_path,
\* temp_folder_path); book_folder is the folder its loop stopped at, nopaths
\* tells that both paths are None
update_conversion_tracking(rows, book, book_folder, nopaths, merge, unt, t, skew) ==
    LET merge_files_count == get_merge_files_count(merge)
        existing == FirstRow(rows, book)
        known == IF existing = {} THEN 0
                 ELSE rows[CHOOSE i \in existing : TRUE].total_files
        folder == IF book_folder = NoName THEN NoFolder ELSE unt[book_folder]
        total_files == determine_total_files(merge_files_count, known,
                                             book_folder, folder)
        counted == get_converted_files_count(folder)
        inFolder == classify_folder(folder, counted, total_files)
        res ==
            IF book_folder # NoName
            THEN [status |-> inFolder.status,
                  current_file |-> inFolder.current_file,
                  converted_files |-> counted,
                  progress_percentage |->
                      IF total_files > 0
                      THEN (counted * 100) \div total_files ELSE 0]
            ELSE IF nopaths
            THEN IF total_files > 0
                 THEN [status |-> "completed", current_file |-> "",
                       converted_files |-> total_files,
                       progress_percentage |-> 100]
                 ELSE [status |-> "unknown",
                       current_file |->
                           "Status unclear - no folder or file count data",
                       converted_files |-> 0, progress_percentage |-> 0]
            ELSE [status |-> "pending", current_file |-> "",
                  converted_files |-> 0, progress_percentage |-> 0]
        eta == IF existing # {} /\ res.progress_percentage > 0
               THEN calculate_eta(res.progress_percentage,
                        rows[CHOOSE i \in existing : TRUE].created_at, t, skew)
               ELSE NoEta
    IN  IF existing # {}
        THEN [i \in 1..Len(rows) |->
                IF rows[i].book_name = book
                THEN [rows[i] EXCEPT
                        !.total_files = total_files,
                        !.converted_files = res.converted_files,
                        !.current_file = res.current_file,
                        !.status = res.status,
                        !.progress_percentage = res.progress_percentage,
                        !.estimated_eta_seconds = eta]
                ELSE rows[i]]
        ELSE Append(rows,
                [book_name |-> book, status |-> res.status,
                 current_file |-> res.current_file,
                 progress_percentage |-> res.progress_percentage,
                 total_files |-> total_files,
                 converted_files |-> res.converted_files,
                 estimated_eta_seconds |-> eta, created_at |-> t])

\* update_conversion_tracking for each book of S in turn; the updates of
\* different books touch different rows
RECURSIVE UpdateEach(_, _, _, _, _, _, _, _)
UpdateEach(rows, S, pick, nopaths, merge, unt, t, skew) ==
    IF S = {} THEN rows
    ELSE LET b == CHOOSE x \in S : TRUE
         IN  UpdateEach(
                 update_conversion_tracking(rows, b, pick[b], nopaths, merge,
                                            unt, t, skew),
                 S \ {b}, pick, nopaths, merge, unt, t, skew)

\* ConversionTracker.scan_all_conversions: the books with a folder in the
\* untagged area, then the remaining book folders of the merge area, then the
\* books whose row is converting or pending and that have no folder left
scan_all_conversions(rows, merge, unt, pick, t, skew) ==
    LET untagged == {extract_book_name_from_folder(f) :
                        f \in get_untagged_folders(unt)}
        rows1 == UpdateEach(rows, untagged, pick, FALSE, merge, unt, t, skew)
        merged == get_merge_book_folders(merge) \ untagged
        rows2 == UpdateEach(rows1, merged, pick, FALSE, merge, unt, t, skew)
        db_books == {rows2[i].book_name : i \in {k \in 1..Len(rows2) :
                        rows2[k].status \in {"converting", "pending"}}}
    IN  UpdateEach(rows2, db_books \ (untagged \cup merged), pick, TRUE,
                   merge, unt, t, skew)

\* the watcher starts on empty staging areas and an empty table
InitWatcher ==
    /\ now = 0
    /\ srcFs = [b \in Books |-> Absent]
    /\ backups = {}
    /\ converted = {}
    /\ rss_items = RssItemsInit
    /\ jobs = <<>>
    /\ tracking = <<>>
    /\ jobsHasRssItemId = FALSE
    /\ inbox = <<>>
    /\ published = <<>>
    /\ sent = 0
    /\ toolRuns = [b \in Books |-> 0]
    /\ lastRun = NoRun
    /\ apiResponse = NoResponse
    /\ mergeFs = NoMerge
    /\ untaggedFs = NoUntagged
    /\ running = TRUE
    /\ fsEvents = <<>>
    /\ last_scan_time = NeverScanned
    /\ scannedFs = <<NoMerge, NoUntagged>>
    /\ selected = NoSelects

\* ConversionEventHandler.scan_cooldown, in seconds
scan_cooldown == 5

\* a notification of the observer; is_directory tells that the change made or
\* removed nothing but a directory
FsEvent(is_directory) == [is_directory |-> is_directory]

\* the queue of the observer after a change; noticed is false when the
\* notification of the change is lost
Notify(queue, is_directory, noticed) ==
    IF noticed THEN Append(queue, FsEvent(is_directory)) ELSE queue

\* the conversion script or the mover changes a book folder of the merge area
MergeChange(book, n, noticed) ==
    /\ sent < MaxFsChanges
    /\ n # mergeFs[book]
    /\ mergeFs' = [mergeFs EXCEPT ![book] = n]
    /\ sent' = sent + 1
    /\ fsEvents' = Notify(fsEvents,
                          {mergeFs[book], n} = {NoFolderCount, 0}, noticed)
    /\ UNCHANGED <<now, srcFs, backups, converted, rss_items, jobs, tracking,
                   jobsHasRssItemId, inbox, published, toolRuns, lastRun,
                   apiResponse, untaggedFs, running, selected, last_scan_time,
                   scannedFs>>

\* the conversion script changes a folder of the untagged area
UntaggedChange(folder, st, noticed) ==
    /\ sent < MaxFsChanges
    /\ st # untaggedFs[folder]
    /\ untaggedFs' = [untaggedFs EXCEPT ![folder] = st]
    /\ sent' = sent + 1
    /\ fsEvents' = Notify(fsEvents,
                          {untaggedFs[folder], st} = {NoFolder, FolderOf(0, 0, 0)},
                          noticed)
    /\ UNCHANGED <<now, srcFs, backups, converted, rss_items, jobs, tracking,
                   jobsHasRssItemId, inbox, published, toolRuns, lastRun,
                   apiResponse, mergeFs, running, selected, last_scan_time,
                   scannedFs>>

\* the wall clock passes while rows are tracked
WatcherTick ==
    /\ now < MaxTime
    /\ tracking # <<>>
    /\ now' = now + 1
    /\ UNCHANGED <<srcFs, backups, converted, rss_items, jobs, tracking,
                   jobsHasRssItemId, staging, loops, inbox, published, sent,
                   toolRuns, lastRun, apiResponse>>

\* a rescan that runs only while a notification waits
ScanIfNotified(pick, skew) ==
    /\ fsEvents # <<>>
    /\ tracking' = scan_all_conversions(tracking, mergeFs, untaggedFs, pick,
                                        now, skew)
    /\ lastRun' = [NoRun EXCEPT !.kind = "scan"]
    /\ scannedFs' = staging
    /\ UNCHANGED <<now, srcFs, backups, converted, rss_items, jobs,
                   jobsHasRssItemId, staging, running, selected, fsEvents,
                   last_scan_time, inbox, published, sent, toolRuns,
                   apiResponse>>

\* the periodic rescan of main, every 30 seconds whatever was notified
Scan(pick, skew) ==
    /\ tracking' = scan_all_conversions(tracking, mergeFs, untaggedFs, pick,
                                        now, skew)
    /\ lastRun' = [NoRun EXCEPT !.kind = "scan"]
    /\ scannedFs' = staging
    /\ UNCHANGED <<now, srcFs, backups, converted, rss_items, jobs,
                   jobsHasRssItemId, staging, running, selected, fsEvents,
                   last_scan_time, inbox, published, sent, toolRuns,
                   apiResponse>>

\* ConversionEventHandler.on_any_event up to its rescan: whether the
\* notification, delivered at time t, gets one; last is last_scan_time
on_any_event_scans(is_directory, last, t) ==
    /\ ~is_directory
    /\ ~(last # NeverScanned /\ (t - last) * SecondsPerTick < scan_cooldown)

\* ConversionEventHandler.on_any_event for the next notification
on_any_event(pick, skew) ==
    /\ fsEvents # <<>>
    /\ fsEvents' = Tail(fsEvents)
    /\ IF on_any_event_scans(Head(fsEvents).is_directory, last_scan_time, now)
       THEN /\ pick \in FolderPicks(untaggedFs)
            /\ last_scan_time' = now
            /\ tracking' = scan_all_conversions(tracking, mergeFs, untaggedFs,
                                                pick, now, skew)
            /\ lastRun' = [NoRun EXCEPT !.kind = "scan"]
            /\ scannedFs' = staging
       ELSE /\ pick = [b \in Books |-> NoName] /\ skew = 0
            /\ UNCHANGED <<last_scan_time, tracking, scannedFs, lastRun>>
    /\ UNCHANGED <<now, srcFs, backups, converted, rss_items, jobs,
                   jobsHasRssItemId, staging, running, selected, inbox, published,
                   sent,
                   toolRuns, apiResponse>>

NextWatcher ==
    \/ \E book \in Books, n \in MergeCounts, noticed \in BOOLEAN :
          MergeChange(book, n, noticed)
    \/ \E folder \in UntaggedFolders, st \in FolderStates,
          noticed \in BOOLEAN :
          UntaggedChange(folder, st, noticed)
    \/ WatcherTick
    \/ \E pick \in FolderPicks(untaggedFs), skew \in ClockSkews :
          Scan(pick, skew)
    \/ \E pick \in FolderPicks(untaggedFs) \cup {[b \in Books |-> NoName]},
          skew \in ClockSkews :
          on_any_event(pick, skew)

SpecWatcher == InitWatcher /\ [][NextWatcher]_vars

\* the watcher with the last change of the staging trees still to come
InitWatcherLive ==
    /\ now = 0
    /\ srcFs = [b \in Books |-> Absent]
    /\ backups = {}
    /\ converted = {}
    /\ rss_items = RssItemsInit
    /\ jobs = <<>>
    /\ tracking = <<>>
    /\ jobsHasRssItemId = FALSE
    /\ inbox = <<>>
    /\ published = <<>>
    /\ sent = MaxFsChanges - 1
    /\ toolRuns = [b \in Books |-> 0]
    /\ lastRun = NoRun
    /\ apiResponse = NoResponse
    /\ mergeFs = NoMerge
    /\ untaggedFs = NoUntagged
    /\ running = TRUE
    /\ fsEvents = <<>>
    /\ last_scan_time = NeverScanned
    /\ scannedFs = <<NoMerge, NoUntagged>>
    /\ selected = NoSelects

\* main's loop never ends: the periodic rescan is taken again and again
SpecWatcherLive ==
    /\ InitWatcherLive
    /\ [][NextWatcher]_vars
    /\ WF_vars(\E pick \in FolderPicks(untaggedFs), skew \in ClockSkews :
                  Scan(pick, skew))

\* the watcher started while the conversion script had made the first book's
\* working folder in the untagged area and written nothing into it yet
InitWatcherFolder ==
    /\ now = 0
    /\ srcFs = [b \in Books |-> Absent]
    /\ backups = {}
    /\ converted = {}
    /\ rss_items = RssItemsInit
    /\ jobs = <<>>
    /\ tracking = <<>>
    /\ jobsHasRssItemId = FALSE
    /\ inbox = <<>>
    /\ published = <<>>
    /\ sent = 0
    /\ toolRuns = [b \in Books |-> 0]
    /\ lastRun = NoRun
    /\ apiResponse = NoResponse
    /\ mergeFs = NoMerge
    /\ untaggedFs = [NoUntagged EXCEPT ![BookB \o TmpSuffix] = FolderOf(0, 0, 0)]
    /\ running = TRUE
    /\ fsEvents = <<>>
    /\ last_scan_time = NeverScanned
    /\ scannedFs = <<NoMerge, NoUntagged>>
    /\ selected = NoSelects

SpecWatcherFolder == InitWatcherFolder /\ [][NextWatcher]_vars

\* ------------------------------------------ identity resolution on its own
HarryTitle ==
    <<"H", "a", "r", "r", "y", " ", "P", "o", "t", "t", "e", "r", " ",
    "a", "n", "d", " ", "t", "h", "e", " ", "S", "o", "r", "c", "e", "r",
    "e", "r", "'", "s", " ", "S", "t", "o", "n", "e">>

HarryQuery ==
    <<"H", "a", "r", "r", "y", " ", "P", "o", "t", "t", "e", "r", " ",
    "S", "o", "r", "c", "e", "r", "e", "r", " ", "S", "t", "o", "n", "e">>

LordQuery ==
    <<"L", "o", "r", "d", " ", "o", "f", " ", "t", "h", "e", " ", "R",
    "i", "n", "g", "s">>

\* the titles the feed worker can have stored, by item id
ResolveTitles ==
    {<<1, HarryTitle>>, <<2, <<"a", "x", "b">>>>, <<3, BookB>>}

\* the names a download can arrive under
ResolveQueries ==
    {HarryQuery, LordQuery, <<"a", "_", "b">>, <<"a", "x", "b">>, BookB,
     <<"P", "o", "t", "t", "e", "r">>, <<"x", " ", "b">>}

\* a download without rss_item_id waits while the catalog holds any of the
\* titles
InitResolve ==
    /\ now = 0
    /\ srcFs = [b \in Books |-> Absent]
    /\ backups = {}
    /\ converted = {}
    /\ \E T \in SUBSET ResolveTitles :
          rss_items = {[id |-> t[1], title |-> t[2],
                        conversion_backup_path |-> NoName,
                        conversion_attempts |-> 0] : t \in T}
    /\ jobs = <<>>
    /\ tracking = <<>>
    /\ jobsHasRssItemId = FALSE
    /\ \E q \in ResolveQueries : inbox = <<DownloadMsg(q, q, NoId)>>
    /\ published = <<>>
    /\ sent = 0
    /\ toolRuns = [b \in Books |-> 0]
    /\ lastRun = NoRun
    /\ apiResponse = NoResponse
    /\ mergeFs = NoMerge
    /\ untaggedFs = NoUntagged
    /\ running = TRUE
    /\ fsEvents = <<>>
    /\ last_scan_time = NeverScanned
    /\ scannedFs = <<NoMerge, NoUntagged>>
    /\ selected = NoSelects

\* handle_download_complete up to its call of _find_rss_item_id_by_name for a
\* message without rss_item_id; rid is what the lookup returned
ResolveId(rid) ==
    /\ inbox # <<>>
    /\ Head(inbox).channel = ChanDownload
    /\ Head(inbox).rss_item_id = NoId
    /\ rid \in find_rss_item_id_by_name(Head(inbox).book_name, rss_items)
    /\ inbox' = Tail(inbox)
    /\ lastRun' = [NoRun EXCEPT !.kind = "resolve",
                                !.book = Head(inbox).book_name,
                                !.rid = rid, !.steps = <<"resolve_id">>]
    /\ UNCHANGED <<now, srcFs, backups, converted, rss_items, jobs, tracking,
                   jobsHasRssItemId, staging, loops, published, sent,
                   toolRuns, apiResponse>>

SpecResolve ==
    /\ InitResolve
    /\ [][\E rid \in {NoId} \cup {t[1] : t \in ResolveTitles} :
             ResolveId(rid)]_vars

\* -------------------------------------------- release after tagging success
\* a second book whose name continues the first book's after an underscore
BookBU == <<"b", "_", "c">>
ReleaseBooks == {BookB, BookBU}

\* nothing downloaded yet; the catalog holds the first book or nothing
InitRelease ==
    /\ now = 0
    /\ srcFs = [b \in ReleaseBooks |-> Absent]
    /\ backups = {}
    /\ converted = {}
    /\ rss_items \in {RssItemsInit, {}}
    /\ jobs = <<>>
    /\ tracking = <<>>
    /\ jobsHasRssItemId = FALSE
    /\ inbox = <<>>
    /\ published = <<>>
    /\ sent = 0
    /\ toolRuns = [b \in ReleaseBooks |-> 0]
    /\ lastRun = NoRun
    /\ apiResponse = NoResponse
    /\ mergeFs = NoMerge
    /\ untaggedFs = NoUntagged
    /\ running = TRUE
    /\ fsEvents = <<>>
    /\ last_scan_time = NeverScanned
    /\ scannedFs = <<NoMerge, NoUntagged>>
    /\ selected = NoSelects

\* cleanup_backup_on_tagging_success(book_name), called once the tagged file
\* of the book was moved to the library.  pointer is the value fetchone()
\* returned (NoName for NULL and for no row), hit the directory the scan of
\* the backup store stopped at when there was no pointer
cleanup_backup_on_tagging_success(book, pointer, hit) ==
    /\ lastRun.kind # "none"
    /\ LET titled == {r \in rss_items : r.title = book}
           hits == {n \in BackupNames(backups) :
                      StartsWith(n, book \o <<"_">>)}
       IN  /\ pointer \in (IF titled = {} THEN {NoName}
                            ELSE {r.conversion_backup_path : r \in titled})
           /\ IF pointer # NoName
              THEN /\ hit = NoName
                   /\ backups' = {d \in backups : d.name # pointer}
                   /\ rss_items' =
                         {IF r.title = book
                          THEN [r EXCEPT !.conversion_backup_path = NoName]
                          ELSE r : r \in rss_items}
              ELSE /\ hit \in (IF hits = {} THEN {NoName} ELSE hits)
                   /\ backups' = {d \in backups : d.name # hit}
                   /\ rss_items' = rss_items
           /\ lastRun' = [NoRun EXCEPT
                             !.kind = "release", !.book = book,
                             !.found = IF pointer # NoName THEN pointer
                                       ELSE hit]
    /\ converted' = converted \ {book}
    /\ UNCHANGED <<now, srcFs, jobs, tracking, jobsHasRssItemId, staging,
                   loops, inbox, published, sent, toolRuns, apiResponse>>

\* the step is the release of a book after its tagging succeeded
Release(book) ==
    \E pointer \in {NoName} \cup
                    {r.conversion_backup_path : r \in rss_items},
       hit \in {NoName} \cup BackupNames(backups) :
       cleanup_backup_on_tagging_success(book, pointer, hit)

NextRelease ==
    \/ \E book \in ReleaseBooks, rid \in MsgIds :
          PublishDownloadComplete(book, rid, TreeMp3)
    \/ \E rid \in ResolvedIds, toolRes \in ToolResults, fault \in Faults :
          handle_download_complete(rid, Absent, toolRes, fault)
    \/ \E book \in ReleaseBooks : Release(book)
    \/ Tick

SpecRelease == InitRelease /\ [][NextRelease]_vars

\* ------------------------------------------- the pointer over two downloads
\* the mover has announced the second book, which the catalog knows by the
\* shorter title, and further messages about that book can follow
InitPointer ==
    /\ now = 0
    /\ srcFs = [b \in ReleaseBooks |-> IF b = BookBU THEN TreeMp3 ELSE Absent]
    /\ backups = {}
    /\ converted = {}
    /\ rss_items = RssItemsInit
    /\ jobs = <<>>
    /\ tracking = <<>>
    /\ jobsHasRssItemId = FALSE
    /\ inbox = <<DownloadMsg(BookBU, BookBU, NoId)>>
    /\ published = <<>>
    /\ sent = 0
    /\ toolRuns = [b \in ReleaseBooks |-> 0]
    /\ lastRun = NoRun
    /\ apiResponse = NoResponse
    /\ mergeFs = NoMerge
    /\ untaggedFs = NoUntagged
    /\ running = TRUE
    /\ fsEvents = <<>>
    /\ last_scan_time = NeverScanned
    /\ scannedFs = <<NoMerge, NoUntagged>>
    /\ selected = NoSelects

NextPointer ==
    \/ \E rid \in MsgIds : PublishDownloadComplete(BookBU, rid, TreeMp3)
    \/ PublishRetryConversion(BookBU, CatalogId)
    \/ \E rid \in ResolvedIds, toolRes \in ToolResults, fault \in Faults :
          handle_download_complete(rid, Absent, toolRes, fault)
    \/ \E pointer \in Pointers :
          \E scanned \in Scans(pointer), toolRes \in ToolResults,
             fault \in Faults :
             handle_retry_conversion(pointer, scanned, toolRes, fault)
    \/ Tick

SpecPointer == InitPointer /\ [][NextPointer]_vars

\* ------------------------------- the tracking table with both its writers
\* the watcher starts on empty staging areas and an empty table while the
\* converter service has one download to handle
InitTracking ==
    /\ now = 0
    /\ srcFs = [b \in Books |-> IF b = BookB THEN TreeMp3 ELSE Absent]
    /\ backups = {}
    /\ converted = {}
    /\ rss_items = RssItemsInit
    /\ jobs = <<>>
    /\ tracking = <<>>
    /\ jobsHasRssItemId = FALSE
    /\ inbox = <<DownloadMsg(BookB, BookB, CatalogId)>>
    /\ published = <<>>
    /\ sent = 0
    /\ toolRuns = [b \in Books |-> 0]
    /\ lastRun = NoRun
    /\ apiResponse = NoResponse
    /\ mergeFs = NoMerge
    /\ untaggedFs = NoUntagged
    /\ running = TRUE
    /\ fsEvents = <<>>
    /\ last_scan_time = NeverScanned
    /\ scannedFs = <<NoMerge, NoUntagged>>
    /\ selected = NoSelects

NextTracking ==
    \/ \E book \in Books, n \in MergeCounts : MergeChange(book, n, FALSE)
    \/ \E folder \in UntaggedFolders, st \in FolderStates :
          UntaggedChange(folder, st, FALSE)
    \/ WatcherTick
    \/ \E pick \in FolderPicks(untaggedFs), skew \in ClockSkews :
          Scan(pick, skew)
    \/ \E rid \in ResolvedIds, toolRes \in ToolResults, fault \in Faults :
          handle_download_complete(rid, Absent, toolRes, fault)

SpecTracking == InitTracking /\ [][NextTracking]_vars

\* ------------------------------- the tracking table, statement by statement
\* both books are in the merge area with one source file each, the converter
\* works on them, and the table is empty
InitConcurrent ==
    /\ now = 0
    /\ srcFs = [b \in Books |-> TreeMp3]
    /\ backups = {}
    /\ converted = {}
    /\ rss_items = RssItemsInit
    /\ jobs = <<>>
    /\ tracking = <<>>
    /\ jobsHasRssItemId = FALSE
    /\ inbox = <<>>
    /\ published = <<>>
    /\ sent = 0
    /\ toolRuns = [b \in Books |-> 0]
    /\ lastRun = NoRun
    /\ apiResponse = NoResponse
    /\ mergeFs = [b \in Books |-> 1]
    /\ untaggedFs = NoUntagged
    /\ running = TRUE
    /\ fsEvents = <<>>
    /\ last_scan_time = NeverScanned
    /\ scannedFs = <<NoMerge, NoUntagged>>
    /\ selected = NoSelects

\* the SELECT ... FROM conversion_tracking WHERE book_name = ? that opens
\* update_conversion_progress (converter) and the write of
\* update_conversion_tracking (watcher, for a book it found while scanning)
SelectTracking(w, book) ==
    /\ sent < MaxUpserts
    /\ selected[w] = Idle
    /\ w # "converter" =>
          book \in get_merge_book_folders(mergeFs) \cup
                   {extract_book_name_from_folder(f) :
                       f \in get_untagged_folders(untaggedFs)}
    /\ selected' = [selected EXCEPT ![w] =
                       [book |-> book,
                        existing |-> FirstRow(tracking, book) # {}]]
    /\ sent' = sent + 1
    /\ UNCHANGED <<now, srcFs, backups, converted, rss_items, jobs, tracking,
                   jobsHasRssItemId, staging, running, fsEvents,
                   last_scan_time, scannedFs, inbox, published, toolRuns,
                   lastRun, apiResponse>>

\* update_conversion_progress after its SELECT: UPDATE when the SELECT had
\* returned a row, INSERT otherwise, then commit; done tells the call at the
\* end of a conversion from the one at its start
WriteProgress(done) ==
    /\ selected["converter"] # Idle
    /\ LET book == selected["converter"].book
           total == Cardinality(find_mp3_files(srcFs[book]))
           upd(rows) ==
               IF done
               THEN update_conversion_progress(rows, book, "completed", "",
                                               100, total, total, now)
               ELSE update_conversion_progress(rows, book, "converting",
                        "Starting conversion...", 0, total, 0, now)
       IN  tracking' = IF selected["converter"].existing THEN upd(tracking)
                       ELSE Append(tracking, upd(<<>>)[1])
    /\ selected' = [selected EXCEPT !["converter"] = Idle]
    /\ UNCHANGED <<now, srcFs, backups, converted, rss_items, jobs,
                   jobsHasRssItemId, staging, running, fsEvents,
                   last_scan_time, scannedFs, inbox, published, sent,
                   toolRuns, lastRun, apiResponse>>

\* update_conversion_tracking after its SELECT, in the same way
WriteTracking(w, pick, skew) ==
    /\ w # "converter"
    /\ selected[w] # Idle
    /\ LET book == selected[w].book
           upd(rows) ==
               update_conversion_tracking(rows, book, pick[book], FALSE,
                                          mergeFs, untaggedFs, now, skew)
       IN  tracking' = IF selected[w].existing THEN upd(tracking)
                       ELSE Append(tracking, upd(<<>>)[1])
    /\ selected' = [selected EXCEPT ![w] = Idle]
    /\ UNCHANGED <<now, srcFs, backups, converted, rss_items, jobs,
                   jobsHasRssItemId, staging, running, fsEvents,
                   last_scan_time, scannedFs, inbox, published, sent,
                   toolRuns, lastRun, apiResponse>>

NextConcurrent ==
    \/ \E w \in Writers, book \in Books : SelectTracking(w, book)
    \/ \E done \in BOOLEAN : WriteProgress(done)
    \/ \E w \in Writers, pick \in FolderPicks(untaggedFs),
          skew \in ClockSkews :
          WriteTracking(w, pick, skew)

SpecConcurrent == InitConcurrent /\ [][NextConcurrent]_vars

\* ============================================================== properties
Has(steps, x) == \E i \in 1..Len(steps) : steps[i] = x

\* the step is the converter handling the message at the head of the inbox
Handling(channel) ==
    /\ inbox # <<>>
    /\ Head(inbox).channel = channel
    /\ inbox' = Tail(inbox)

\* the job row of the book written last, as a set (empty without rows)
LastJob(rows, book) ==
    {rows[i] : i \in {k \in 1..Len(rows) :
        /\ rows[k].book_name = book
        /\ \A m \in 1..Len(rows) : rows[m].book_name = book => m <= k}}

\* the snapshot directory of this event exists and holds every source file
SnapshotTaken(store, book, t, tree) ==
    \E d \in store : d.name = BackupDirName(book, t) /\ tree.files \subseteq d.files

\* C1: handle_download_complete never runs the tool for an event without a
\* snapshot of that event's source having been written first, and an event
\* whose backup failed leaves no tool run, no job row and no result event.
C1_FailClosedBackup ==
    [][Handling(ChanDownload) =>
        LET book == Head(inbox).book_name
        IN  /\ (book # NoName /\ toolRuns' # toolRuns =>
                   SnapshotTaken(backups', book, now, srcFs'[book]))
            /\ (book # NoName /\ srcFs'[book] # Absent
                /\ ~SnapshotTaken(backups', book, now, srcFs'[book]) =>
                   /\ toolRuns' = toolRuns
                   /\ jobs' = jobs
                   /\ published' = <<>>)]_vars

\* a download whose backup copy failed has been handled
C1_Witness ==
    /\ lastRun.kind = "download"
    /\ Has(lastRun.steps, "backup_failed")
    /\ lastRun.book # NoName
    /\ srcFs[lastRun.book] # Absent

\* the events published for the book on the channel while handling the last event
ResultEvents(channel, book) ==
    {i \in 1..Len(published) :
        published[i].channel = channel /\ published[i].book_name = book}

\* C2: after a download_complete for a book whose source path existed, with
\* the backup, the store and the bus all working and the tool exiting 0 and
\* writing the output file, the book's job row is completed and a
\* conversion_complete event for the book has been published.
C2_EndToEndSuccess ==
    (/\ lastRun.kind = "download"
     /\ lastRun.srcExisted
     /\ lastRun.nominal
     /\ lastRun.tool = "exit0_wrote")
    => /\ lastRun.snapshot \in BackupNames(backups)
       /\ \E r \in LastJob(jobs, lastRun.book) : r.status = "completed"
       /\ ResultEvents(ChanComplete, lastRun.book) # {}

\* C3: whenever the tool exits non-zero in an attempt (the store and the bus
\* working), the book's job row ends failed with a non-empty error_message, a
\* conversion_failed event is published and no snapshot is removed.
C3_EndToEndFailure ==
    [][(/\ Handling(ChanDownload) \/ Handling(ChanRetry)
        /\ lastRun'.tool = "nonzero"
        /\ lastRun'.nominal)
       => /\ \E r \in LastJob(jobs', lastRun'.book) :
                r.status = "failed" /\ r.error_message # ""
          /\ \E i \in 1..Len(published') :
                /\ published'[i].channel = ChanFailed
                /\ published'[i].book_name = lastRun'.book
          /\ BackupNames(backups) \subseteq BackupNames(backups')]_vars

\* C4: a download_complete without a catalog item id whose resolution finds no
\* match still gets its backup, its tool run, its processing and terminal job
\* rows and its result event.
C4_ResolutionFailureNonFatal ==
    (/\ lastRun.kind = "download"
     /\ lastRun.book # NoName
     /\ lastRun.msgId = NoId
     /\ lastRun.rid = NoId
     /\ lastRun.nominal
     /\ srcFs[lastRun.book] # Absent)
    => /\ lastRun.snapshot \in BackupNames(backups)
       /\ lastRun.tool # "none"
       /\ \E i, k \in 1..Len(jobs) :
             /\ i < k
             /\ jobs[i].book_name = lastRun.book
             /\ jobs[k].book_name = lastRun.book
             /\ jobs[i].status = "processing"
             /\ jobs[k].status \in {"completed", "failed"}
       /\ \E i \in 1..Len(published) : published[i].book_name = lastRun.book

\* the step is a retry request answered by the REST endpoint
ApiStep ==
    /\ lastRun' = lastRun
    /\ apiResponse'.endpoint = "retry"
    /\ apiResponse'.code # 0
    /\ \/ apiResponse' # apiResponse
       \/ /\ sent' = sent + 1
          /\ inbox' # <<>>
          /\ inbox'[Len(inbox')].origin = "api"

\* the book has a job row and its latest row has used up its budget
BudgetExhausted(book) ==
    /\ LatestJobs(jobs, book) # {}
    /\ \A j \in LatestJobs(jobs, book) : jobs[j].attempts >= jobs[j].max_attempts

\* C5: a retry request for a book whose job has attempts >= max_attempts and
\* no force flag is answered 400 with nothing published and nothing restored or
\* converted; with the force flag the request is accepted and the retry event
\* published.
C5_RetryRejectedBeforePublish ==
    [][ApiStep /\ apiResponse'.code # 404 =>
        LET r == apiResponse'
        IN  /\ (BudgetExhausted(r.book) /\ ~r.force =>
                   /\ r.code = 400
                   /\ UNCHANGED <<inbox, sent, srcFs, backups, toolRuns, jobs,
                                  published>>)
            /\ (r.force =>
                   /\ r.code = 200
                   /\ inbox' = Append(inbox, inbox'[Len(inbox')])
                   /\ inbox'[Len(inbox')].channel = ChanRetry
                   /\ inbox'[Len(inbox')].book_name = r.book)]_vars

\* a request without force was rejected for a book whose budget was used up
C5_Witness ==
    /\ apiResponse.code = 400
    /\ ~apiResponse.force
    /\ BudgetExhausted(apiResponse.book)
    /\ inbox = <<>>

\* C6: every tool run of a book is counted in the attempts of the book's job
\* row, which is what lets the budget test of the retry endpoint bound them.
C6_AttemptsCounted ==
    \A b \in Books :
        toolRuns[b] > 0 => \E r \in LastJob(jobs, b) : r.attempts >= toolRuns[b]

\* C7: no step lowers the attempts counter of a catalog item or of a book's
\* current job row.
C7_AttemptsMonotone ==
    [][/\ \A r \in rss_items : \E q \in rss_items' :
             q.id = r.id /\ q.conversion_attempts >= r.conversion_attempts
       /\ \A b \in Books : \A r \in LastJob(jobs, b) :
             \E q \in LastJob(jobs', b) : q.attempts >= r.attempts]_vars

\* an attempt of a catalog book has failed after an attempt of it was counted
C7_Witness ==
    /\ lastRun.tool = "nonzero"
    /\ \E r \in rss_items :
          r.title = lastRun.book /\ r.conversion_attempts >= 1

\* C8: every retry_conversion event the REST endpoint publishes carries the
\* book_name and rss_item_id that handle_retry_conversion requires, and is not
\* dropped by the handler as an invalid message.
C8_RetryProtocolAgreement ==
    /\ \A i \in 1..Len(inbox) :
          inbox[i].channel = ChanRetry /\ inbox[i].origin = "api" =>
              inbox[i].book_name # NoName /\ inbox[i].rss_item_id # NoId
    /\ (lastRun.kind = "retry" /\ lastRun.origin = "api" =>
           ~Has(lastRun.steps, "invalid"))

\* the steps of a handler from the status write that opens the conversion
ConversionTails ==
    {<<"job_processing", "convert", "tool", "job_completed",
       "increment_usage", "publish_complete">>,
     <<"job_processing", "convert", "tool", "job_failed", "publish_failed">>,
     <<"job_processing", "convert", "job_failed", "publish_failed">>}

StepsAfter(steps, x) ==
    LET i == CHOOSE k \in 1..Len(steps) : steps[k] = x
    IN  SubSeq(steps, i + 1, Len(steps))

\* the source location of the book holds exactly the files of the snapshot
RestoredFrom(store, name, tree) ==
    /\ name \in BackupNames(store)
    /\ tree = [kind |-> "dir", files |-> BackupFiles(store, name)]

\* C9: on a retry with a backup found the tool runs only after the snapshot
\* was restored over the source location; a failed restore leaves no tool run,
\* no job row and no event; after a successful restore the handler writes the
\* processing row, converts, writes the terminal row and publishes the
\* matching result event, as handle_download_complete does.
C9_RestoreBeforeConversion ==
    [][Handling(ChanRetry) =>
        LET book == Head(inbox).book_name
            run == lastRun'
            n == Len(jobs)
        IN  /\ (toolRuns' # toolRuns =>
                   /\ Has(run.steps, "restore")
                   /\ RestoredFrom(backups, run.found, srcFs'[book]))
            /\ (run.found # NoName
                /\ ~RestoredFrom(backups, run.found, srcFs'[book]) =>
                   /\ toolRuns' = toolRuns
                   /\ jobs' = jobs
                   /\ tracking' = tracking
                   /\ published' = <<>>)
            /\ (Has(run.steps, "restore") =>
                   /\ StepsAfter(run.steps, "restore") \in ConversionTails
                   /\ (run.tool # "none" <=> toolRuns' # toolRuns)
                   /\ (run.nominal =>
                          /\ Len(published') = 1
                          /\ published'[1].book_name = book
                          /\ published'[1].status =
                                IF run.success THEN "completed" ELSE "failed")
                   /\ (run.nominal /\ jobsHasRssItemId =>
                          /\ Len(jobs') = n + 2
                          /\ jobs'[n + 1].status = "processing"
                          /\ jobs'[n + 2].status =
                                IF run.success THEN "completed" ELSE "failed"))]_vars

\* a retry restored a snapshot and ran the tool
C9_Witness ==
    /\ lastRun.kind = "retry"
    /\ Has(lastRun.steps, "restore")
    /\ lastRun.tool # "none"

\* neither the persisted pointers nor the backup store hold a snapshot of the book
NoSnapshotLocatable(book) ==
    /\ \A r \in rss_items : r.title = book => r.conversion_backup_path = NoName
    /\ \A i \in 1..Len(jobs) :
          jobs[i].book_name = book => jobs[i].backup_path = NoName
    /\ \A d \in backups : ~StartsWith(d.name, book)

\* C10: a retry for a book without any locatable snapshot restores nothing,
\* runs no tool, writes no row and publishes no event.
C10_BackupMissingTerminal ==
    [][(/\ Handling(ChanRetry)
        /\ Head(inbox).book_name # NoName
        /\ Head(inbox).rss_item_id # NoId
        /\ NoSnapshotLocatable(Head(inbox).book_name))
       => /\ UNCHANGED <<srcFs, backups, jobs, tracking, rss_items, converted,
                         toolRuns>>
          /\ published' = <<>>]_vars

\* a valid retry found no snapshot while the store held another book's
C10_Witness ==
    /\ lastRun.kind = "retry"
    /\ Has(lastRun.steps, "no_backup")
    /\ backups # {}

\* the book has no persisted pointer, neither in its catalog row nor in its
\* job rows
NoPointer(book) ==
    /\ \A r \in rss_items : r.title = book => r.conversion_backup_path = NoName
    /\ \A i \in 1..Len(jobs) :
          jobs[i].book_name = book => jobs[i].backup_path = NoName

\* C11: on a retry the persisted pointer is used when there is one; without a
\* pointer the scan yields a directory named <book_name>_<timestamp> of this
\* very book, the most recent one of them, and yields one whenever one exists.
C11_BackupLookupOrder ==
    [][(/\ Handling(ChanRetry)
        /\ Head(inbox).book_name # NoName
        /\ Head(inbox).rss_item_id # NoId)
       => LET book == Head(inbox).book_name
              found == lastRun'.found
              names == BackupNames(backups)
          IN  /\ \A r \in rss_items :
                    r.title = book /\ r.conversion_backup_path # NoName
                        => found = r.conversion_backup_path
              /\ (NoPointer(book) /\ found # NoName =>
                     \E t \in 0..MaxTime :
                        /\ found = BackupDirName(book, t)
                        /\ found \in names
                        /\ \A t2 \in 0..MaxTime :
                              t2 > t => BackupDirName(book, t2) \notin names)
              /\ (NoPointer(book)
                  /\ (\E t \in 0..MaxTime : BackupDirName(book, t) \in names)
                     => found # NoName)]_vars

\* C12: restoring the snapshot a create has just returned, over any prior
\* content of the target, returns true and leaves at the target exactly the
\* tree the create was given (a directory or a single file).
C12_RoundTripRestore ==
    [][(/\ lastRun.kind = "create"
        /\ lastRun.srcExisted
        /\ lastRun.nominal
        /\ lastRun'.kind = "restore"
        /\ lastRun'.found = lastRun.snapshot
        /\ lastRun'.nominal)
       => /\ lastRun'.success
          /\ srcFs'[lastRun'.book] = srcFs[lastRun.book]]_vars

\* C13: create_backup leaves the source as it was, and on a missing source
\* returns none and leaves the backup store as it was.
C13_CreateIsCopy ==
    [][(lastRun'.kind = "create" /\ sent' = sent + 1)
       => /\ srcFs' = srcFs
          /\ (srcFs[lastRun'.book] = Absent =>
                 /\ lastRun'.snapshot = NoName
                 /\ backups' = backups)]_vars

\* a create on a missing source has returned while the store held a snapshot
C13_Witness ==
    /\ lastRun.kind = "create"
    /\ ~lastRun.srcExisted
    /\ lastRun.snapshot = NoName
    /\ backups # {}

\* the step is the converter handling a message of either channel
HandlingAny == Handling(ChanDownload) \/ Handling(ChanRetry)

\* C14: an attempt that ran the tool reports success exactly when the tool
\* exited 0 and /converted/<book>.m4b exists.
C14_InvokerSuccessIff ==
    [][(HandlingAny /\ lastRun'.tool # "none")
       => (lastRun'.success <=>
              /\ lastRun'.tool \in {"exit0_wrote", "exit0_nowrite"}
              /\ lastRun'.book \in converted')]_vars

\* the tool exited non-zero while an output file of the book was present
C14_Witness ==
    /\ lastRun.tool = "nonzero"
    /\ lastRun.book \in converted
    /\ ~lastRun.success

\* C15: when the tool is killed at its timeout (the store and the bus
\* working) the attempt fails, the book's job row ends failed and a
\* conversion_failed event for the book is published.
C15_TimeoutFailure ==
    [][(HandlingAny /\ lastRun'.tool = "timeout" /\ lastRun'.nominal)
       => /\ ~lastRun'.success
          /\ \E r \in LastJob(jobs', lastRun'.book) : r.status = "failed"
          /\ \E i \in 1..Len(published') :
                /\ published'[i].channel = ChanFailed
                /\ published'[i].book_name = lastRun'.book]_vars

\* C16: every failed job row written and every conversion_failed event
\* published for an attempt whose tool run failed carries the tool's own
\* error as its error_message.
C16_ToolErrorVerbatim ==
    [][(/\ HandlingAny
        /\ lastRun'.tool \in {"nonzero", "timeout", "exit0_nowrite"})
       => /\ \A i \in (Len(jobs) + 1)..Len(jobs') :
                jobs'[i].status = "failed" =>
                    jobs'[i].error_message = ToolError(lastRun'.tool)
          /\ \A i \in 1..Len(published') :
                published'[i].channel = ChanFailed =>
                    published'[i].error_message = ToolError(lastRun'.tool)]_vars

\* C17: every conversion_tracking row has 0 <= converted_files <= total_files
\* and a progress_percentage equal to converted_files / total_files * 100, or
\* 0 when total_files is 0.
C17_TrackingRowBounds ==
    \A i \in 1..Len(tracking) :
        LET r == tracking[i]
        IN  /\ 0 <= r.converted_files
            /\ r.converted_files <= r.total_files
            /\ r.progress_percentage =
                  IF r.total_files > 0
                  THEN (r.converted_files * 100) \div r.total_files ELSE 0

\* C18: the ETA stored in a tracking row is none whenever the row's percentage
\* is exactly 0 or 100, and any other stored ETA lies between 0 and seven days
\* in seconds.
C18_EtaBounds ==
    \A i \in 1..Len(tracking) :
        LET r == tracking[i]
            eta == r.estimated_eta_seconds
        IN  /\ (r.progress_percentage \in {0, 100} => eta = NoEta)
            /\ (eta # NoEta => 0 <= eta /\ eta <= SevenDays)

\* C19: handling an event, whatever its outcome, removes no snapshot from the
\* backup store, and when conversion_complete is published the snapshot the
\* attempt was made from is still in the store.
C19_DeferredRelease ==
    [][HandlingAny =>
        /\ BackupNames(backups) \subseteq BackupNames(backups')
        /\ (\E i \in 1..Len(published') :
               published'[i].channel = ChanComplete) =>
              IF lastRun'.kind = "download"
              THEN lastRun'.snapshot \in BackupNames(backups')
              ELSE lastRun'.found \in BackupNames(backups')]_vars

\* a retry has succeeded and published conversion_complete with the snapshot
\* it restored still in the store
C19_Witness ==
    /\ lastRun.kind = "retry"
    /\ lastRun.success
    /\ \E i \in 1..Len(published) : published[i].channel = ChanComplete
    /\ lastRun.found \in BackupNames(backups)

\* C20: a catalog item whose attempt counter has reached the retention
\* threshold has its snapshot pointer cleared and no snapshot of its book left
\* in the store.
C20_RetentionCleanup ==
    \A r \in rss_items :
        r.conversion_attempts >= CONVERSION_BACKUP_RETENTION =>
            /\ r.conversion_backup_path = NoName
            /\ \A d \in backups :
                  ~StartsWith(d.name, r.title \o <<"_">>)

\* C21: whatever events were handled for a book, the conversion_jobs table
\* holds at most one row with that book_name.
C21_JobUpsert ==
    \A i, k \in 1..Len(jobs) :
        jobs[i].book_name = jobs[k].book_name => i = k

\* C22: a download_complete for a book whose conversion was started before
\* takes no further snapshot of that book and does not run the tool for it
\* again.
C22_NoReentrancy ==
    [][(Handling(ChanDownload) /\ Head(inbox).book_name # NoName
        /\ toolRuns[Head(inbox).book_name] > 0)
       => (toolRuns' = toolRuns /\ backups' = backups)]_vars

\* C25: an attempt of a catalogued book that is reported as succeeded has its
\* completed row in the job table as the book's latest row: a status write lost
\* to "database is locked" is not passed over.
C25_LockContentionSurfaced ==
    [][(HandlingAny /\ jobsHasRssItemId /\ lastRun'.rid # NoId
        /\ lastRun'.success)
       => /\ LastJob(jobs', lastRun'.book) # {}
          /\ \A j \in LastJob(jobs', lastRun'.book) : j.status = "completed"
      ]_vars

\* C26: a download_complete whose source path is absent at the check and still
\* absent at the one re-check after the wait takes no snapshot, runs no tool,
\* and leaves a failed job row with an error message for the catalogued book.
C26_TransientIO ==
    [][(Handling(ChanDownload) /\ Has(lastRun'.steps, "source_missing"))
       => /\ Has(lastRun'.steps, "wait")
          /\ backups' = backups
          /\ toolRuns' = toolRuns
          /\ ((jobsHasRssItemId /\ lastRun'.rid # NoId) =>
                /\ LastJob(jobs', lastRun'.book) # {}
                /\ \A j \in LastJob(jobs', lastRun'.book) :
                      j.status = "failed" /\ j.error_message # "")
      ]_vars

\* the step is a cancel request answered by the REST layer
CancelStep ==
    /\ apiResponse'.endpoint = "cancel"
    /\ lastRun' = lastRun
    /\ inbox' = inbox
    /\ (apiResponse' # apiResponse \/ jobs' # jobs)

\* C23: a cancel request for a job row in status processing is answered 200
\* and changes that row's status to cancelled; for any other row or id it is
\* answered 404 and changes nothing; either way no other row, no snapshot, no
\* tracking row, no source tree, no tool run and no message is touched.
C23_CancelFlipsStatus ==
    [][CancelStep =>
        LET cid == apiResponse'.conversion_id
            hit == {i \in 1..Len(jobs) :
                      jobs[i].id = cid /\ jobs[i].status = "processing"}
        IN  /\ Len(jobs') = Len(jobs)
            /\ \A i \in 1..Len(jobs) :
                  IF i \in hit
                  THEN jobs'[i] = [jobs[i] EXCEPT !.status = "cancelled"]
                  ELSE jobs'[i] = jobs[i]
            /\ apiResponse'.code = IF hit = {} THEN 404 ELSE 200
            /\ UNCHANGED <<now, srcFs, backups, converted, rss_items,
                           tracking, staging, loops, inbox, published, sent,
                           toolRuns, lastRun>>
      ]_vars

\* a request cancelled one of two rows in status processing
C23_Witness ==
    /\ apiResponse.endpoint = "cancel"
    /\ apiResponse.code = 200
    /\ \E i, k \in 1..Len(jobs) :
          /\ jobs[i].id = apiResponse.conversion_id
          /\ jobs[i].status = "cancelled"
          /\ jobs[k].status = "processing"

\* the event loop hands the message at the head of the inbox to its handler
HandleNext ==
    \/ \E rid \in ResolvedIds, arrived \in SourceTrees \cup {Absent},
          toolRes \in ToolResults, fault \in Faults :
          handle_download_complete(rid, arrived, toolRes, fault)
    \/ \E pointer \in Pointers :
          \E scanned \in Scans(pointer), toolRes \in ToolResults,
             fault \in Faults :
             handle_retry_conversion(pointer, scanned, toolRes, fault)

C27_RescanLiveness ==
    (scannedFs # staging) ~> (scannedFs = staging)

\* the staging trees changed, no notification ever led to a rescan, and the
\* periodic rescan has read the trees as they are
C27_Witness ==
    /\ sent = MaxFsChanges
    /\ staging # <<NoMerge, NoUntagged>>
    /\ last_scan_time = NeverScanned
    /\ fsEvents = <<>>
    /\ lastRun.kind = "scan"
    /\ scannedFs = staging

\* C28: when the event handler has taken the last waiting notification, of a
\* file or of a directory, alone or at the end of a burst, the staging trees
\* as they are after it have been rescanned.
C28_Debounce ==
    [][(fsEvents # <<>> /\ fsEvents' = Tail(fsEvents) /\ fsEvents' = <<>>)
       => scannedFs' = staging']_vars

\* the step is a rescan of the watcher, periodic or brought by a notification
Rescan ==
    \/ \E pick \in FolderPicks(untaggedFs), skew \in ClockSkews :
          Scan(pick, skew)
    \/ /\ fsEvents # <<>>
       /\ on_any_event_scans(Head(fsEvents).is_directory, last_scan_time, now)
       /\ \E pick \in FolderPicks(untaggedFs), skew \in ClockSkews :
             on_any_event(pick, skew)

\* the tracking row of a book, as a set
RowOf(rows, book) == {rows[i] : i \in FirstRow(rows, book)}

\* C29: a rescan classifies each book that has a folder in the untagged area
\* by the first rule that applies: a file with the in-progress marker gives
\* converting with that file's name; else a file with the settling marker
\* gives converting with the processing label; else c > 0 plain output files
\* give completed when c >= total_files and converting with the finalizing
\* label otherwise; else pending.
C29_ClassificationOrder ==
    [][Rescan =>
        \A f \in get_untagged_folders(untaggedFs) :
            LET fo == untaggedFs[f]
                rows == RowOf(tracking', extract_book_name_from_folder(f))
            IN  /\ rows # {}
                /\ \A r \in rows :
                      IF fo.converting > 0
                      THEN /\ r.status = "converting"
                           /\ r.current_file = ConvertingName
                      ELSE IF fo.finished > 0
                      THEN /\ r.status = "converting"
                           /\ r.current_file = "Processing finished files..."
                      ELSE IF fo.plain > 0
                      THEN IF fo.plain >= r.total_files
                           THEN r.status = "completed"
                           ELSE /\ r.status = "converting"
                                /\ r.current_file = "Finalizing conversion..."
                      ELSE r.status = "pending"
      ]_vars

\* a rescanned folder holds a file in progress beside a settling one and its
\* row names the file in progress
C29_Witness ==
    /\ lastRun.kind = "scan"
    /\ scannedFs = staging
    /\ \E f \in get_untagged_folders(untaggedFs) :
          /\ untaggedFs[f].converting > 0
          /\ untaggedFs[f].finished > 0
          /\ \E r \in RowOf(tracking, extract_book_name_from_folder(f)) :
                r.status = "converting" /\ r.current_file = ConvertingName

ScannedBooks ==
    {extract_book_name_from_folder(f) : f \in get_untagged_folders(untaggedFs)}
    \cup get_merge_book_folders(mergeFs)
    \cup {tracking[i].book_name : i \in {k \in 1..Len(tracking) :
             tracking[k].status \in {"converting", "pending"}}}

\* every .m4b file under the untagged folder of a book, 0 without a folder
FolderFiles(book) ==
    LET fs == BookFolderCandidates(book, untaggedFs)
    IN  IF fs = {} THEN 0
        ELSE LET fo == untaggedFs[CHOOSE f \in fs : TRUE]
             IN  fo.converting + fo.finished + fo.plain

\* C31: a rescan gives each book it updates the total_files of the first
\* source that has one: the count of source files in the merge area when it
\* is not zero, else the total_files above zero of the book's row, else the
\* count of all output files under the book's untagged folder, else 0.
C31_TotalFilesPriority ==
    [][Rescan =>
        \A b \in ScannedBooks :
            LET N == get_merge_files_count(mergeFs)
                prior == RowOf(tracking, b)
                known == IF prior = {} THEN 0
                         ELSE (CHOOSE r \in prior : TRUE).total_files
                rows == RowOf(tracking', b)
            IN  /\ rows # {}
                /\ \A r \in rows :
                      r.total_files =
                          IF N > 0 THEN N
                          ELSE IF known > 0 THEN known
                          ELSE FolderFiles(b)
      ]_vars

\* a rescan found no source file in the merge area and kept the total of the
\* book's row, which differs from the output files now under its folder
C31_Witness ==
    /\ lastRun.kind = "scan"
    /\ scannedFs = staging
    /\ get_merge_files_count(mergeFs) = 0
    /\ \E b \in Books :
          /\ FolderFiles(b) > 0
          /\ \E r \in RowOf(tracking, b) :
                r.total_files > 0 /\ r.total_files # FolderFiles(b)

\* the book has no folder in the merge area and none in the untagged area
AbsentFromStaging(book) ==
    /\ mergeFs[book] = NoFolderCount
    /\ BookFolderCandidates(book, untaggedFs) = {}

\* C32: a rescan that finds a tracked book, converting or pending, in neither
\* staging area marks it completed with converted_files = total_files and 100%
\* when the book's row had total_files > 0, and does not mark it completed
\* when the book's row had total_files = 0, whatever the other books have in
\* the staging areas.
C32_AbsenceRule ==
    [][Rescan =>
        \A b \in Books :
            AbsentFromStaging(b) =>
                \A r0 \in RowOf(tracking, b) :
                    r0.status \in {"converting", "pending"} =>
                        \A r1 \in RowOf(tracking', b) :
                            IF r0.total_files > 0
                            THEN /\ r1.status = "completed"
                                 /\ r1.converted_files = r1.total_files
                                 /\ r1.progress_percentage = 100
                            ELSE r1.status # "completed"
      ]_vars

\* C33: a rescan gives each book that has source files in its folder of the
\* merge area a total_files equal to the count of that book's own source
\* files, and a percentage taken from that total, however many files the
\* folders of other books hold.
C33_PerBookIsolation ==
    [][Rescan =>
        \A b \in get_merge_book_folders(mergeFs) :
            mergeFs[b] > 0 =>
                \A r \in RowOf(tracking', b) :
                    /\ r.total_files = mergeFs[b]
                    /\ r.progress_percentage =
                          (r.converted_files * 100) \div mergeFs[b]
      ]_vars

\* the ids the three rules name for a book: the items with that very title,
\* else the items whose title holds the name or is held by it, else the items
\* with the highest token-overlap score when it is above 0.3, else none
RuleIds(book, items) ==
    LET Substring(a, b) ==
            \E off \in 0..(Len(b) - Len(a)) :
                SubSeq(b, off + 1, off + Len(a)) = a
        exact == {r \in items : r.title = book}
        sub == {r \in items :
                   Substring(book, r.title) \/ Substring(r.title, book)}
        best == {r \in items :
                   /\ ScoreAbove(FuzzyCommon(book, r.title),
                                 FuzzyDenom(book, r.title))
                   /\ \A q \in items :
                         FuzzyCommon(book, q.title) * FuzzyDenom(book, r.title)
                         <= FuzzyCommon(book, r.title)
                            * FuzzyDenom(book, q.title)}
        hit == IF exact # {} THEN exact
               ELSE IF sub # {} THEN sub
               ELSE best
    IN  IF hit = {} THEN {NoId} ELSE {r.id : r \in hit}

\* C34: the id resolved for a download that names no item is the one the
\* three rules give, tried in order: exact title, substring in either
\* direction, token overlap above 0.3; so "Harry Potter Sorcerer Stone"
\* resolves to the item titled "Harry Potter and the Sorcerer's Stone" and
\* "Lord of the Rings" to none when that item is the whole catalog.
C34_IdentityResolution ==
    lastRun.kind = "resolve" =>
        /\ lastRun.rid \in RuleIds(lastRun.book, rss_items)
        /\ ({r.title : r \in rss_items} = {HarryTitle} =>
              /\ (lastRun.book = HarryQuery => lastRun.rid = 1)
              /\ (lastRun.book = LordQuery => lastRun.rid = NoId))

\* the snapshots of the store that were made of a book
SnapshotsOf(store, book) ==
    {n \in BackupNames(store) :
        \E t \in 0..MaxTime : n = BackupDirName(book, t)}

\* C35: the release of a book deletes the snapshot its catalog item points
\* to, or without a pointer a snapshot of the book when there is one, clears
\* the pointer, deletes the book's converted output, and removes no snapshot
\* and no output of another book.
C35_ReleaseFrame ==
    [][\A book \in ReleaseBooks :
          Release(book) =>
              LET ptrs == {r.conversion_backup_path : r \in
                             {q \in rss_items : q.title = book}} \ {NoName}
                  gone == BackupNames(backups) \ BackupNames(backups')
              IN  /\ gone \subseteq SnapshotsOf(backups, book)
                  /\ ptrs \cap BackupNames(backups') = {}
                  /\ (ptrs = {} /\ SnapshotsOf(backups, book) # {}) =>
                        gone # {}
                  /\ \A r \in rss_items' :
                        r.title = book => r.conversion_backup_path = NoName
                  /\ converted' = converted \ {book}
      ]_vars

\* C36: a download_complete that took its snapshot for a catalog item leaves
\* the item's pointer at that snapshot and every earlier snapshot in the
\* store, and a retry that restores a snapshot restores the one made last of
\* its book.
C36_SnapshotPointer ==
    [][/\ (Handling(ChanDownload) /\ lastRun'.snapshot # NoName) =>
            /\ BackupNames(backups) \subseteq BackupNames(backups')
            /\ \A r \in rss_items' :
                  r.id = lastRun'.rid =>
                      r.conversion_backup_path = lastRun'.snapshot
       /\ (Handling(ChanRetry) /\ lastRun'.found # NoName) =>
            \A t \in 0..MaxTime :
                BackupDirName(lastRun'.book, t) \in BackupNames(backups) =>
                    \E u \in t..MaxTime :
                        lastRun'.found = BackupDirName(lastRun'.book, u)
      ]_vars

\* C37: when a handled event has written a processing row for its attempt,
\* the latest job row of the book is completed or failed once the handler has
\* returned, whatever the tool did and whichever write met a locked database.
C37_NoJobLeftProcessing ==
    [][(HandlingAny
        /\ \E i \in (Len(jobs) + 1)..Len(jobs') :
              jobs'[i].status = "processing")
       => /\ LastJob(jobs', lastRun'.book) # {}
          /\ \A j \in LastJob(jobs', lastRun'.book) :
                j.status \in {"completed", "failed"}
      ]_vars

\* C38: an attempt that ran the tool has published exactly one result event,
\* conversion_complete or conversion_failed, and the book's latest job row
\* carries the terminal status the event names.
C38_OneResultEvent ==
    [][(HandlingAny /\ lastRun'.tool # "none")
       => /\ Len(published') = 1
          /\ published'[1].channel \in {ChanComplete, ChanFailed}
          /\ published'[1].book_name = lastRun'.book
          /\ published'[1].status =
                IF published'[1].channel = ChanComplete THEN "completed"
                ELSE "failed"
          /\ LastJob(jobs', lastRun'.book) # {}
          /\ \A j \in LastJob(jobs', lastRun'.book) :
                j.status = published'[1].status
      ]_vars

\* C39: however the converter's progress writes and the rescans of the
\* watcher's two threads interleave, conversion_tracking holds at most one
\* row with a given book_name.
C39_OneTrackingRow ==
    \A i, k \in 1..Len(tracking) :
        tracking[i].book_name = tracking[k].book_name => i = k

\* C40: a create_backup that succeeds returns a snapshot directory that was
\* not in the backup store before the call.
C40_SnapshotFreshness ==
    [][\A book \in StoreBooks, copyOk \in BOOLEAN :
          (StoreCreate(book, copyOk) /\ lastRun'.success) =>
              /\ lastRun'.snapshot \in BackupNames(backups')
              /\ lastRun'.snapshot \notin BackupNames(backups)
      ]_vars

====
